---------------------------- MODULE Spec2Model ----------------------------
(***************************************************************************)
(* Model of binance_mcp.config.ConfigManager: the encryption key file, the *)
(* encrypted account table kept in memory by every ConfigManager object    *)
(* and rewritten to config.json by every mutating operation.               *)
(*                                                                         *)
(* Several ConfigManager objects (the CLI process, the server process) may *)
(* live over the same config directory; each holds its own _config.        *)
(***************************************************************************)
EXTENDS Integers, Sequences, FiniteSets, TLC

(* ----------------------------- bounds --------------------------------- *)

\* The clock readings datetime.now() hands out to add_account and
\* update_account: the run of one object, and of the shared directory.
MaxClock == 3
MaxSharedClock == 2

\* ConfigManager objects (processes) over the one config directory.
Instances == {"cli", "srv"}

\* account ids and credential strings of the callers.
Ids == {"a1", "a2"}
Plain == {"", "x", "y"}

(* --------------------------- program constants ------------------------ *)

DefaultPort == 9001
Ports == {8080}

\* Python's None for an Optional argument, and a supplied value.
None == <<>>
Some(v) == <<v>>

(* ------------------------------ Fernet -------------------------------- *)

\* Fernet.generate_key(): a fresh random key; two generations never agree.
generate_key(i) == IF i = "cli" THEN "K1" ELSE "K2"

\* A str value is either a caller's plaintext or a Fernet token, which
\* carries the key it was produced under and the plaintext it hides.
Str(p) == [form |-> "plain", key |-> "", pt |-> p]

encrypt_value(key, value) == [form |-> "token", key |-> key, pt |-> value]

\* decrypt raises (RuntimeError) on anything that is not a token of this key.
decrypt_value(key, v) ==
    IF v.form = "token" /\ v.key = key
    THEN [ok |-> TRUE, val |-> v.pt]
    ELSE [ok |-> FALSE, val |-> ""]

(* ------------------------------ tables -------------------------------- *)

NoAccounts == [a \in {} |-> TRUE]

default_config == [accounts |-> NoAccounts, server |-> [port |-> DefaultPort]]

\* dict assignment d[k] = v and del d[k]
DictSet(d, k, v) == [x \in (DOMAIN d) \cup {k} |-> IF x = k THEN v ELSE d[x]]
DictDel(d, k) == [x \in (DOMAIN d) \ {k} |-> d[x]]

\* The files of the config directory.
\* config.json is missing, holds a whole JSON document, or holds a strict
\* prefix of one (from the empty file that open(..., 'w') leaves to a
\* partly written document), which json.load rejects.
AbsentFile == [st |-> "absent", doc |-> default_config]
TruncatedFile == [st |-> "truncated", doc |-> default_config]
FullFile(doc) == [st |-> "full", doc |-> doc]

AbsentKey == [st |-> "absent", key |-> ""]
EmptyKey == [st |-> "empty", key |-> ""]
FullKey(k) == [st |-> "full", key |-> k]

VARIABLES
    keyFile,      \* config_dir/.key
    configFile,   \* config_dir/config.json
    pc,           \* per object: where its process stands
    cipher,       \* per object: the key of self._cipher
    config,       \* per object: self._config
    call,         \* per object: the call in progress or last returned
    now,          \* the wall clock
    supplied,     \* per object and account: the credentials last supplied
    durable,      \* per account: the add that returned and who started since
    horizon,      \* the clock reading at which the run is cut off
    clients,      \* the ccxt.binance objects constructed so far, in order
    cache,        \* BinanceMCPTools._exchange_cache: account id -> client
    tpc,          \* per caller of the tools: where its call stands
    frame,        \* per caller: the call, its locals, its outcome
    wire,         \* the requests sent to the exchange, in order
    logs          \* logger.warning records of the factory

\* The state of the ConfigManager layer and of the layer above it.
configVars == <<keyFile, configFile, pc, cipher, config, call, now, supplied, durable, horizon>>
tools == <<clients, cache, tpc, frame, wire, logs>>
vars == <<configVars, tools>>

\* A call: the operation, its account_id, the arguments that were supplied
\* (not None) once it got past its first check, how it ended, what it returned.
NoArgs == {}
NoValue == [none |-> TRUE]
Call(op, id, args, status, value) ==
    [op |-> op, id |-> id, args |-> args, status |-> status, value |-> value]
NoCall == Call("none", "", NoArgs, "ok", NoValue)

NoSupplied == [a \in {} |-> TRUE]
NoDurable == [a \in Ids |-> None]

\* The threads calling into one BinanceMCPTools object.
Callers == {"t1", "t2"}

\* No tool has been called: an empty cache, nothing built, nothing sent.
NoFrame == [op |-> "none"]
NoTools ==
    /\ clients = <<>>
    /\ cache = [a \in {} |-> 0]
    /\ tpc = [t \in Callers |-> "idle"]
    /\ frame = [t \in Callers |-> NoFrame]
    /\ wire = <<>>
    /\ logs = <<>>

(* A directory as an earlier run left it: the key file of that run and a   *)
(* table written by it, where the operator has added the portfolio_margin  *)
(* flag to the record by hand, as the repository's scripts instruct.       *)
EarlierRecord ==
    [api_key |-> encrypt_value("K0", "x"), secret |-> encrypt_value("K0", "y"),
     sandbox |-> FALSE, description |-> "", created_at |-> 0,
     portfolio_margin |-> TRUE]

EarlierTables ==
    { default_config,
      [default_config EXCEPT !.accounts = DictSet(NoAccounts, "a1", EarlierRecord)] }

Directory ==
    /\ \/ keyFile = AbsentKey /\ configFile = AbsentFile
       \/ keyFile = FullKey("K0") /\ configFile \in {FullFile(t) : t \in EarlierTables}
    /\ pc = [i \in Instances |-> "off"]
    /\ cipher = [i \in Instances |-> ""]
    /\ config = [i \in Instances |-> default_config]
    /\ call = [i \in Instances |-> NoCall]
    /\ now = 1
    /\ supplied = [i \in Instances |-> NoSupplied]
    /\ durable = NoDurable
    /\ NoTools

Init == Directory /\ horizon = MaxClock

InitShared == Directory /\ horizon = MaxSharedClock

RacedRecord ==
    [api_key |-> encrypt_value("K9", "x"), secret |-> encrypt_value("K9", "y"),
     sandbox |-> FALSE, description |-> "", created_at |-> 0]

RacedTable ==
    [default_config EXCEPT
        !.accounts = DictSet(DictSet(NoAccounts, "a1", EarlierRecord), "a2", RacedRecord)]

InitRaced ==
    /\ \/ keyFile = AbsentKey /\ configFile = AbsentFile
       \/ keyFile = FullKey("K0") /\ configFile = FullFile(RacedTable)
    /\ pc = [i \in Instances |-> "off"]
    /\ cipher = [i \in Instances |-> ""]
    /\ config = [i \in Instances |-> default_config]
    /\ call = [i \in Instances |-> NoCall]
    /\ now = 1
    /\ supplied = [i \in Instances |-> NoSupplied]
    /\ durable = NoDurable
    /\ NoTools
    /\ horizon = MaxClock


(* --------------------------- pure operations -------------------------- *)

Set(f, i, v) == [f EXCEPT ![i] = v]

Outcome(status, value) == [status |-> status, value |-> value]

\* ConfigManager.get_account: the record with api_key and secret decrypted
\* and every other key of the stored dict copied.
get_account(cfg, key, account_id) ==
    IF account_id \notin DOMAIN cfg.accounts
    THEN Outcome("AccountNotFound", NoValue)
    ELSE LET encrypted_account == cfg.accounts[account_id]
             k == decrypt_value(key, encrypted_account.api_key)
             s == decrypt_value(key, encrypted_account.secret)
         IN  IF ~k.ok \/ ~s.ok
             THEN Outcome("DecryptFailed", NoValue)
             ELSE Outcome("ok",
                    [f \in DOMAIN encrypted_account |->
                        IF f = "api_key" THEN k.val
                        ELSE IF f = "secret" THEN s.val
                        ELSE encrypted_account[f]])

\* list_accounts handing out the stored dicts themselves.
list_accounts_all(cfg) == cfg.accounts

\* ConfigManager.list_accounts: three public keys per account.
list_accounts(cfg) ==
    [a \in DOMAIN cfg.accounts |->
        LET account_data == cfg.accounts[a]
        IN  [description |-> IF "description" \in DOMAIN account_data
                             THEN account_data.description ELSE "",
             sandbox |-> account_data.sandbox,
             created_at |-> IF "created_at" \in DOMAIN account_data
                            THEN account_data.created_at ELSE 0]]

\* validate_account testing the two fields with 'or'.
validate_account_or(cfg, key, account_id) ==
    LET r == get_account(cfg, key, account_id)
    IN  IF r.status = "ok"
        THEN Outcome("ok", [valid |-> r.value.api_key # "" \/ r.value.secret # ""])
        ELSE Outcome("ok", [valid |-> FALSE])

\* ConfigManager.validate_account: bool(api_key and secret) of the decrypted
\* account; any exception of get_account is caught and becomes False.
validate_account(cfg, key, account_id) ==
    LET r == get_account(cfg, key, account_id)
    IN  IF r.status = "ok"
        THEN Outcome("ok", [valid |-> r.value.api_key # "" /\ r.value.secret # ""])
        ELSE Outcome("ok", [valid |-> FALSE])

\* The credentials (as plaintexts) and the flag that were supplied for the
\* records of a table.
SuppliedOf(doc) ==
    [a \in DOMAIN doc.accounts |->
        [api_key |-> doc.accounts[a].api_key.pt,
         secret |-> doc.accounts[a].secret.pt,
         sandbox |-> doc.accounts[a].sandbox]]

\* An instance entering __init__ is constructed after every add that has
\* returned so far.
StartedAfter(i) ==
    [a \in Ids |-> IF durable[a] = None THEN None
                   ELSE Some([durable[a][1] EXCEPT !.insts = @ \cup {i}])]

Forget(a) == [durable EXCEPT ![a] = None]

(* ----------------------------- __init__ ------------------------------- *)

\* A process starts and calls ConfigManager().
Start(i) ==
    /\ pc[i] = "off"
    /\ pc' = Set(pc, i, "key_check")
    /\ call' = Set(call, i, Call("init", "", NoArgs, "running", NoValue))
    /\ durable' = StartedAfter(i)
    /\ UNCHANGED <<keyFile, configFile, cipher, config, now, supplied, horizon, tools>>

\* The process ends (exit, kill, crash) wherever it stands.
Stop(i) ==
    /\ pc[i] # "off"
    /\ pc' = Set(pc, i, "off")
    /\ cipher' = Set(cipher, i, "")
    /\ config' = Set(config, i, default_config)
    /\ call' = Set(call, i, NoCall)
    /\ supplied' = Set(supplied, i, NoSupplied)
    /\ UNCHANGED <<keyFile, configFile, now, durable, horizon, tools>>

\* An exception leaves __init__: no object exists.
Abort(i, status) ==
    /\ pc' = Set(pc, i, "off")
    /\ cipher' = Set(cipher, i, "")
    /\ config' = Set(config, i, default_config)
    /\ call' = Set(call, i, Call("init", "", NoArgs, status, NoValue))
    /\ supplied' = Set(supplied, i, NoSupplied)

\* _get_encryption_key: self.key_file.exists()
KeyCheck(i) ==
    /\ pc[i] = "key_check"
    /\ pc' = Set(pc, i, IF keyFile.st # "absent" THEN "key_read" ELSE "key_open")
    /\ UNCHANGED <<keyFile, configFile, cipher, config, call, now, supplied, durable, horizon, tools>>

\* _get_encryption_key: read the file; Fernet() rejects an empty key.
KeyRead(i) ==
    /\ pc[i] = "key_read"
    /\ IF keyFile.st = "full"
       THEN /\ cipher' = Set(cipher, i, keyFile.key)
            /\ pc' = Set(pc, i, "load_check")
            /\ UNCHANGED <<config, call, supplied, horizon, tools>>
       ELSE Abort(i, "KeyInvalid")
    /\ UNCHANGED <<keyFile, configFile, now, durable, horizon, tools>>

\* _get_encryption_key: generate_key() and open(key_file, 'wb').
KeyOpen(i) ==
    /\ pc[i] = "key_open"
    /\ cipher' = Set(cipher, i, generate_key(i))
    /\ keyFile' = EmptyKey
    /\ pc' = Set(pc, i, "key_write")
    /\ UNCHANGED <<configFile, config, call, now, supplied, durable, horizon, tools>>

\* _get_encryption_key: f.write(key), close, chmod, return key.
KeyWrite(i) ==
    /\ pc[i] = "key_write"
    /\ keyFile' = FullKey(cipher[i])
    /\ pc' = Set(pc, i, "load_check")
    /\ UNCHANGED <<configFile, cipher, config, call, now, supplied, durable, horizon, tools>>

\* _load_config: config_file.exists(); a missing file gets the default table.
LoadCheck(i) ==
    /\ pc[i] = "load_check"
    /\ IF configFile.st = "absent"
       THEN /\ config' = Set(config, i, default_config)
            /\ pc' = Set(pc, i, "save_open")
       ELSE /\ pc' = Set(pc, i, "load_read")
            /\ UNCHANGED config
    /\ UNCHANGED <<keyFile, configFile, cipher, call, now, supplied, durable, horizon, tools>>

\* _load_config: json.load of the file; a JSONDecodeError becomes RuntimeError.
LoadRead(i) ==
    /\ pc[i] = "load_read"
    /\ IF configFile.st = "full"
       THEN /\ config' = Set(config, i, configFile.doc)
            /\ supplied' = Set(supplied, i, SuppliedOf(configFile.doc))
            /\ call' = Set(call, i, Call("init", "", NoArgs, "ok", NoValue))
            /\ pc' = Set(pc, i, "returned")
            /\ UNCHANGED cipher
       ELSE Abort(i, "LoadFailed")
    /\ UNCHANGED <<keyFile, configFile, now, durable, horizon, tools>>

(* ---------------------------- _save_config ----------------------------- *)

\* open(config_file, 'w') truncates the file in place.
SaveOpen(i) ==
    /\ pc[i] = "save_open"
    /\ configFile' = TruncatedFile
    /\ pc' = Set(pc, i, "save_write")
    /\ UNCHANGED <<keyFile, cipher, config, call, now, supplied, durable, horizon, tools>>

\* What the caller of _save_config does when it returns: the call returns.
Returned(i) ==
    /\ pc' = Set(pc, i, "returned")
    /\ call' = Set(call, i, [call[i] EXCEPT !.status = "ok"])
    /\ durable' =
         IF call[i].op = "add"
         THEN [durable EXCEPT ![call[i].id] =
                 Some([api_key |-> supplied[i][call[i].id].api_key,
                       secret |-> supplied[i][call[i].id].secret,
                       insts |-> {}])]
         ELSE durable

\* json.dump completes, the file is closed, chmod 0o600, return.
SaveWrite(i) ==
    /\ pc[i] = "save_write"
    /\ configFile' = FullFile(config[i])
    /\ Returned(i)
    /\ UNCHANGED <<keyFile, cipher, config, now, supplied, horizon, tools>>

\* IOError in open or in the write: logged, raised as RuntimeError.
SaveFail(i) ==
    /\ pc[i] \in {"save_open", "save_write"}
    /\ IF call[i].op = "init"
       THEN Abort(i, "SaveFailed")
       ELSE /\ pc' = Set(pc, i, "returned")
            /\ call' = Set(call, i, [call[i] EXCEPT !.status = "SaveFailed"])
            /\ UNCHANGED <<cipher, config, supplied>>
    /\ UNCHANGED <<keyFile, configFile, now, durable, horizon, tools>>

(* ------------------------- mutating operations ------------------------ *)

AddArgs == {"api_key", "secret", "sandbox", "description"}

UpdateArgs(api_key, secret, sandbox, description) ==
    (IF api_key # None THEN {"api_key"} ELSE {})
    \cup (IF secret # None THEN {"secret"} ELSE {})
    \cup (IF sandbox # None THEN {"sandbox"} ELSE {})
    \cup (IF description # None THEN {"description"} ELSE {})

\* add_account storing the secret as it was given.
encrypted_account_plain(key, api_key, secret, sandbox, description, t) ==
    [api_key |-> encrypt_value(key, api_key),
     secret |-> Str(secret),
     sandbox |-> sandbox,
     description |-> description,
     created_at |-> t]

\* The dict add_account builds.
encrypted_account(key, api_key, secret, sandbox, description, t) ==
    [api_key |-> encrypt_value(key, api_key),
     secret |-> encrypt_value(key, secret),
     sandbox |-> sandbox,
     description |-> description,
     created_at |-> t]

\* add_account without its "already exists" check: the record is replaced.
add_account_overwrite(i, account_id, api_key, secret, sandbox, description) ==
    /\ pc[i] = "ready"
    /\ now < horizon
    /\ config' = Set(config, i,
          [config[i] EXCEPT !.accounts =
              DictSet(@, account_id,
                  encrypted_account(cipher[i], api_key, secret, sandbox, description, now))])
    /\ supplied' = Set(supplied, i,
          DictSet(supplied[i], account_id,
                          [api_key |-> api_key, secret |-> secret, sandbox |-> sandbox]))
    /\ now' = now + 1
    /\ call' = Set(call, i, Call("add", account_id, AddArgs, "running", NoValue))
    /\ pc' = Set(pc, i, "save_open")
    /\ UNCHANGED <<keyFile, configFile, cipher, durable, horizon, tools>>

\* ConfigManager.add_account up to its call of _save_config.
add_account(i, account_id, api_key, secret, sandbox, description) ==
    /\ pc[i] = "ready"
    /\ LET args == AddArgs
       IN  IF account_id \in DOMAIN config[i].accounts
           THEN /\ call' = Set(call, i, Call("add", account_id, NoArgs, "DuplicateAccount", NoValue))
                /\ pc' = Set(pc, i, "returned")
                /\ UNCHANGED <<keyFile, configFile, cipher, config, now, supplied, durable, horizon, tools>>
           ELSE /\ now < horizon
                /\ config' = Set(config, i,
                      [config[i] EXCEPT !.accounts =
                          DictSet(@, account_id,
                              encrypted_account(cipher[i], api_key, secret, sandbox, description, now))])
                /\ supplied' = Set(supplied, i,
                      DictSet(supplied[i], account_id,
                          [api_key |-> api_key, secret |-> secret, sandbox |-> sandbox]))
                /\ now' = now + 1
                /\ call' = Set(call, i, Call("add", account_id, args, "running", NoValue))
                /\ pc' = Set(pc, i, "save_open")
                /\ UNCHANGED <<keyFile, configFile, cipher, durable, horizon, tools>>

\* remove_account with dict.pop(account_id, None): no error for a missing id.
remove_account_silent(i, account_id) ==
    /\ pc[i] = "ready"
    /\ config' = Set(config, i,
          [config[i] EXCEPT !.accounts = DictDel(@, account_id)])
    /\ supplied' = Set(supplied, i, DictDel(supplied[i], account_id))
    /\ durable' = Forget(account_id)
    /\ call' = Set(call, i, Call("remove", account_id, NoArgs, "running", NoValue))
    /\ pc' = Set(pc, i, "save_open")
    /\ UNCHANGED <<keyFile, configFile, cipher, now, horizon, tools>>

\* ConfigManager.remove_account up to its call of _save_config.
remove_account(i, account_id) ==
    /\ pc[i] = "ready"
    /\ IF account_id \notin DOMAIN config[i].accounts
       THEN /\ call' = Set(call, i, Call("remove", account_id, NoArgs, "AccountNotFound", NoValue))
            /\ pc' = Set(pc, i, "returned")
            /\ UNCHANGED <<keyFile, configFile, cipher, config, now, supplied, durable, horizon, tools>>
       ELSE /\ config' = Set(config, i,
                  [config[i] EXCEPT !.accounts = DictDel(@, account_id)])
            /\ supplied' = Set(supplied, i, DictDel(supplied[i], account_id))
            /\ durable' = Forget(account_id)
            /\ call' = Set(call, i, Call("remove", account_id, NoArgs, "running", NoValue))
            /\ pc' = Set(pc, i, "save_open")
            /\ UNCHANGED <<keyFile, configFile, cipher, now, horizon, tools>>

\* update_account testing "if api_key:" for "if api_key is not None:", so
\* that an empty string counts as not supplied.
updated_account_truthy(key, account, api_key, secret, sandbox, description, t) ==
    LET a1 == IF api_key # None /\ api_key # Some("")
              THEN [account EXCEPT !.api_key = encrypt_value(key, api_key[1])]
              ELSE account
        a2 == IF secret # None /\ secret # Some("")
              THEN [a1 EXCEPT !.secret = encrypt_value(key, secret[1])]
              ELSE a1
        a3 == IF sandbox # None THEN [a2 EXCEPT !.sandbox = sandbox[1]] ELSE a2
        a4 == IF description # None /\ description # Some("")
              THEN [a3 EXCEPT !.description = description[1]]
              ELSE a3
    IN  DictSet(a4, "updated_at", t)

\* update_account building a new dict of the keys it knows.
updated_account_rebuild(key, account, api_key, secret, sandbox, description, t) ==
    [api_key |-> IF api_key # None THEN encrypt_value(key, api_key[1]) ELSE account.api_key,
     secret |-> IF secret # None THEN encrypt_value(key, secret[1]) ELSE account.secret,
     sandbox |-> IF sandbox # None THEN sandbox[1] ELSE account.sandbox,
     description |-> IF description # None THEN description[1] ELSE account.description,
     created_at |-> account.created_at,
     updated_at |-> t]

\* The record update_account leaves in place.
updated_account(key, account, api_key, secret, sandbox, description, t) ==
    LET a1 == IF api_key # None
              THEN [account EXCEPT !.api_key = encrypt_value(key, api_key[1])]
              ELSE account
        a2 == IF secret # None
              THEN [a1 EXCEPT !.secret = encrypt_value(key, secret[1])]
              ELSE a1
        a3 == IF sandbox # None THEN [a2 EXCEPT !.sandbox = sandbox[1]] ELSE a2
        a4 == IF description # None
              THEN [a3 EXCEPT !.description = description[1]]
              ELSE a3
    IN  DictSet(a4, "updated_at", t)

\* ConfigManager.update_account up to its call of _save_config.
update_account(i, account_id, api_key, secret, sandbox, description) ==
    /\ pc[i] = "ready"
    /\ LET args == UpdateArgs(api_key, secret, sandbox, description)
       IN  IF account_id \notin DOMAIN config[i].accounts
           THEN /\ call' = Set(call, i, Call("update", account_id, NoArgs, "AccountNotFound", NoValue))
                /\ pc' = Set(pc, i, "returned")
                /\ UNCHANGED <<keyFile, configFile, cipher, config, now, supplied, durable, horizon, tools>>
           ELSE /\ now < horizon
                /\ config' = Set(config, i,
                      [config[i] EXCEPT !.accounts[account_id] =
                          updated_account(cipher[i], @, api_key, secret, sandbox, description, now)])
                /\ supplied' = Set(supplied, i,
                      [supplied[i] EXCEPT
                          ![account_id].api_key = IF api_key # None THEN api_key[1] ELSE @,
                          ![account_id].secret = IF secret # None THEN secret[1] ELSE @,
                          ![account_id].sandbox = IF sandbox # None THEN sandbox[1] ELSE @])
                /\ now' = now + 1
                /\ durable' = Forget(account_id)
                /\ call' = Set(call, i, Call("update", account_id, args, "running", NoValue))
                /\ pc' = Set(pc, i, "save_open")
                /\ UNCHANGED <<keyFile, configFile, cipher, horizon, tools>>

\* ConfigManager.update_server_config up to its call of _save_config.
update_server_config(i, port) ==
    /\ pc[i] = "ready"
    /\ config' = Set(config, i, [config[i] EXCEPT !.server.port = port])
    /\ call' = Set(call, i, Call("server", "", NoArgs, "running", NoValue))
    /\ pc' = Set(pc, i, "save_open")
    /\ UNCHANGED <<keyFile, configFile, cipher, now, supplied, durable, horizon, tools>>

(* ------------------------------ queries ------------------------------- *)

Query(i, c) ==
    /\ pc[i] = "ready"
    /\ call' = Set(call, i, c)
    /\ pc' = Set(pc, i, "returned")
    /\ UNCHANGED <<keyFile, configFile, cipher, config, now, supplied, durable, horizon, tools>>

\* The caller has taken the result (or the exception) of the call.
Return(i) ==
    /\ pc[i] = "returned"
    /\ pc' = Set(pc, i, "ready")
    /\ call' = Set(call, i, NoCall)
    /\ UNCHANGED <<keyFile, configFile, cipher, config, now, supplied, durable, horizon, tools>>

GetAccount(i, account_id) ==
    LET r == get_account(config[i], cipher[i], account_id)
    IN  Query(i, Call("get", account_id, NoArgs, r.status, r.value))

ListAccounts(i) ==
    Query(i, Call("list", "", NoArgs, "ok", list_accounts(config[i])))

ValidateAccount(i, account_id) ==
    LET r == validate_account(config[i], cipher[i], account_id)
    IN  Query(i, Call("validate", account_id, NoArgs, r.status, r.value))

(* --------------------------- specifications --------------------------- *)

\* add_account(account_id, api_key, secret, sandbox, description) as its
\* callers use it: either sandbox flag, with and without a description,
\* an empty api_key, an empty secret.
AddCases ==
    { <<"x", "x", FALSE, "">>,
      <<"x", "y", TRUE, "d">>,
      <<"", "x", FALSE, "">>,
      <<"x", "", TRUE, "d">> }

\* update_account(...) as its callers use it: nothing supplied, one field
\* supplied (an empty string is a supplied value), several, all of them.
UpdateCases ==
    { <<None, None, None, None>>,
      <<None, None, None, Some("e")>>,
      <<Some("y"), None, None, Some("e")>>,
      <<None, Some(""), None, None>>,
      <<None, None, Some(TRUE), None>>,
      <<Some("y"), Some("y"), Some(FALSE), Some("e")>> }

Construct(i) ==
    \/ Start(i)
    \/ KeyCheck(i)
    \/ KeyRead(i)
    \/ KeyOpen(i)
    \/ KeyWrite(i)
    \/ LoadCheck(i)
    \/ LoadRead(i)

Save(i) ==
    \/ SaveOpen(i)
    \/ SaveWrite(i)
    \/ SaveFail(i)

Mutate(i, ids, adds, cases) ==
    \/ \E a \in ids, c \in adds :
          add_account(i, a, c[1], c[2], c[3], c[4])
    \/ \E a \in ids : remove_account(i, a)
    \/ \E a \in ids, u \in cases :
          update_account(i, a, u[1], u[2], u[3], u[4])
    \/ \E p \in Ports : update_server_config(i, p)

Observe(i, ids) ==
    \/ \E a \in ids : GetAccount(i, a)
    \/ ListAccounts(i)
    \/ \E a \in ids : ValidateAccount(i, a)
    \/ Return(i)

\* What the processes sharing the directory supply.
SharedIds == {"a1"}
SharedAdds == { <<"x", "y", FALSE, "">> }
SharedCases == { <<Some("y"), None, None, None>> }

\* One ConfigManager object over its directory, from construction on.
Next ==
    \/ Construct("cli")
    \/ Save("cli")
    \/ Mutate("cli", Ids, AddCases, UpdateCases)
    \/ Observe("cli", Ids)

Spec == Init /\ [][Next]_vars

\* The processes of the deployment over one directory, starting and
\* ending independently, each working on the one account.
NextShared ==
    \E i \in Instances :
        \/ Construct(i)
        \/ Save(i)
        \/ Mutate(i, SharedIds, SharedAdds, SharedCases)
        \/ Observe(i, SharedIds)
        \/ Stop(i)

SpecShared == InitShared /\ [][NextShared]_vars

\* One object over a fresh directory, or over one in which the key file is
\* not the key of every token of the table (the state two processes racing
\* through _get_encryption_key leave behind).
SpecRaced == InitRaced /\ [][Next]_vars

(* ------------------------------ broker.py ------------------------------ *)

\* BinanceExchangeFactory.BROKER_IDS, in the order of the dict.
Segments == <<"spot", "margin", "future", "delivery", "swap", "option", "inverse">>

BROKER_IDS ==
    [m \in {Segments[n] : n \in DOMAIN Segments} |->
        IF m \in {"spot", "margin"} THEN "C96E9MGA" ELSE "eFC56vBf"]

\* A Python dict with optional keys; dict.get(key) and dict.get(key, default).
NoDict == [k \in {} |-> TRUE]
Opt(key, o) == IF o = None THEN NoDict ELSE key :> o[1]
Get(d, key) == IF key \in DOMAIN d THEN Some(d[key]) ELSE None
GetOr(d, key, default) == IF key \in DOMAIN d THEN d[key] ELSE default

\* "not account_config.get(field)" for a credential: no key, or "".
Falsy(d, field) == field \notin DOMAIN d \/ d[field] = ""

\* exchange_config of create_exchange.
exchange_config(account_config) ==
    [apiKey |-> account_config["api_key"],
     secret |-> account_config["secret"],
     sandbox |-> GetOr(account_config, "sandbox", FALSE),
     enableRateLimit |-> TRUE,
     options |-> [broker |-> BROKER_IDS,
                  defaultType |-> "spot",
                  portfolioMargin |-> GetOr(account_config, "portfolio_margin", FALSE)]]
    @@ Opt("password", Get(account_config, "passphrase"))

\* What the library does on ccxt.binance(config): it raises, or it returns
\* an object whose options are the ones passed, or differ from them in the
\* broker entry.
ReadBacks == {"kept", "other_spot", "no_inverse", "other_spot_no_inverse", "no_broker"}
Libs == [raises : BOOLEAN, readback : ReadBacks]

binance(cfg, lib) ==
    LET b == cfg.options.broker
        spot == IF lib.readback \in {"other_spot", "other_spot_no_inverse"}
                THEN [b EXCEPT !["spot"] = "x-R4BD3S82"] ELSE b
        codes == IF lib.readback \in {"no_inverse", "other_spot_no_inverse"}
                 THEN DictDel(spot, "inverse") ELSE spot
    IN  [cfg EXCEPT !.options =
            IF lib.readback = "no_broker"
            THEN DictDel(cfg.options, "broker")
            ELSE [cfg.options EXCEPT !.broker = codes]]

\* _verify_broker_injection: raises without a broker entry, else warns once
\* for each segment whose code is not the expected one.
verify_broker_injection(exchange) ==
    IF "broker" \notin DOMAIN exchange.options
    THEN [raised |-> TRUE, warnings |-> <<>>]
    ELSE LET injected_brokers == exchange.options.broker
             differs(m) == Get(injected_brokers, m) # Some(BROKER_IDS[m])
         IN  [raised |-> FALSE, warnings |-> SelectSeq(Segments, differs)]

Created(status, field, built, client, warnings) ==
    [status |-> status, field |-> field, built |-> built, client |-> client,
     warnings |-> warnings]

\* create_exchange looking at api_key only.
create_exchange_key_only(account_config, lib) ==
    IF Falsy(account_config, "api_key")
    THEN Created("MissingCredential", "api_key", 0, None, <<>>)
    ELSE IF lib.raises \/ "secret" \notin DOMAIN account_config
    THEN Created("ConstructionFailed", "", 0, None, <<>>)
    ELSE LET exchange == binance(exchange_config(account_config), lib)
             v == verify_broker_injection(exchange)
         IN  IF v.raised
             THEN Created("ConstructionFailed", "", 1, None, <<>>)
             ELSE Created("ok", "", 1, Some(exchange), v.warnings)

\* BinanceExchangeFactory.create_exchange: the outcome, the field named by
\* the ValueError, how many ccxt.binance objects were constructed, the one
\* returned, the warnings logged.
create_exchange(account_config, lib) ==
    IF Falsy(account_config, "api_key")
    THEN Created("MissingCredential", "api_key", 0, None, <<>>)
    ELSE IF Falsy(account_config, "secret")
    THEN Created("MissingCredential", "secret", 0, None, <<>>)
    ELSE IF lib.raises
    THEN Created("ConstructionFailed", "", 0, None, <<>>)
    ELSE LET exchange == binance(exchange_config(account_config), lib)
             v == verify_broker_injection(exchange)
         IN  IF v.raised
             THEN Created("ConstructionFailed", "", 1, None, <<>>)
             ELSE Created("ok", "", 1, Some(exchange), v.warnings)

\* BinanceExchangeFactory.test_exchange_connection, given whether
\* fetch_time and fetch_balance of the new client succeed.
test_exchange_connection(account_config, lib, time_ok, balance_ok) ==
    LET c == create_exchange(account_config, lib)
        test_result == [success |-> FALSE, error |-> None, server_time |-> None,
                        account_info |-> None, broker_injected |-> FALSE]
    IN  IF c.status # "ok"
        THEN Outcome("ok", [test_result EXCEPT !.error = Some(c.status)])
        ELSE LET t1 == IF time_ok
                       THEN [test_result EXCEPT !.server_time = Some("time")]
                       ELSE test_result
             IN  IF ~balance_ok
                 THEN Outcome("ok", [t1 EXCEPT !.error = Some("fetch_balance")])
                 ELSE Outcome("ok",
                        [t1 EXCEPT !.account_info = Some("currencies"),
                                   !.broker_injected = "broker" \in DOMAIN c.client[1].options,
                                   !.success = TRUE])

\* The account configs handed to the factory: each credential absent, empty
\* or given; the sandbox flag, the unified flag and a passphrase absent or given.
Credentials == {None, Some(""), Some("x")}
AccountConfigs ==
    { Opt("api_key", k) @@ Opt("secret", s) @@ Opt("sandbox", sb)
        @@ Opt("portfolio_margin", pm) @@ Opt("passphrase", pp) :
        k \in Credentials, s \in Credentials, sb \in {None, Some(TRUE)},
        pm \in {None, Some(TRUE)}, pp \in {None, Some("p")} }

\* A caller calls create_exchange.
CreateExchange(t, account_config, lib) ==
    /\ tpc[t] = "idle"
    /\ LET out == create_exchange(account_config, lib)
       IN  /\ frame' = Set(frame, t, [op |-> "create_exchange",
                                      account_config |-> account_config,
                                      lib |-> lib, out |-> out])
           /\ logs' = logs \o out.warnings
    /\ tpc' = Set(tpc, t, "done")
    /\ UNCHANGED <<configVars, clients, cache, wire>>

\* A caller calls test_exchange_connection.
TestExchangeConnection(t, account_config, lib, time_ok, balance_ok) ==
    /\ tpc[t] = "idle"
    /\ LET created == create_exchange(account_config, lib)
       IN  /\ frame' = Set(frame, t, [op |-> "test_exchange_connection",
                                      account_config |-> account_config,
                                      lib |-> lib,
                                      time_ok |-> time_ok, balance_ok |-> balance_ok,
                                      created |-> created,
                                      out |-> test_exchange_connection(
                                                 account_config, lib, time_ok, balance_ok)])
           /\ logs' = logs \o created.warnings
    /\ tpc' = Set(tpc, t, "done")
    /\ UNCHANGED <<configVars, clients, cache, wire>>

\* The caller has taken the result; the log and the requests of the call
\* are dropped with it.
Finish(t) ==
    /\ tpc[t] = "done"
    /\ tpc' = Set(tpc, t, "idle")
    /\ frame' = Set(frame, t, NoFrame)
    /\ logs' = <<>>
    /\ wire' = SelectSeq(wire, LAMBDA w : w.by # t)
    /\ UNCHANGED <<configVars, clients, cache>>

\* The factory called directly, as the command line does, by one caller.
NextFactory ==
    \/ \E c \in AccountConfigs, lib \in Libs : CreateExchange("t1", c, lib)
    \/ \E c \in AccountConfigs, lib \in Libs, time_ok \in BOOLEAN, balance_ok \in BOOLEAN :
          TestExchangeConnection("t1", c, lib, time_ok, balance_ok)
    \/ Finish("t1")

SpecFactory == Init /\ [][NextFactory]_vars

(* ------------------------------- tools.py ------------------------------ *)

\* The most ccxt.binance objects the tools build in one run.
MaxClients == 3

\* The process whose ConfigManager the tools hold (server.py).
Server == "srv"

\* The table of the server: a1 in unified mode, with or without a second
\* account a2 in standard mode.
StandardRecord == encrypted_account("K0", "x", "y", FALSE, "", 1)

ServerTables ==
    { [default_config EXCEPT !.accounts = DictSet(NoAccounts, "a1", EarlierRecord)],
      [default_config EXCEPT
          !.accounts = DictSet(DictSet(NoAccounts, "a1", EarlierRecord), "a2", StandardRecord)] }

\* BinanceMCPTools(config_manager) over a constructed ConfigManager.
InitTools ==
    /\ keyFile = FullKey("K0")
    /\ configFile \in {FullFile(doc) : doc \in ServerTables}
    /\ pc = [i \in Instances |-> IF i = Server THEN "ready" ELSE "off"]
    /\ cipher = [i \in Instances |-> IF i = Server THEN "K0" ELSE ""]
    /\ config = [i \in Instances |-> IF i = Server THEN configFile.doc ELSE default_config]
    /\ call = [i \in Instances |-> NoCall]
    /\ now = 2
    /\ supplied = [i \in Instances |->
                      IF i = Server THEN SuppliedOf(configFile.doc) ELSE NoSupplied]
    /\ durable = NoDurable
    /\ horizon = MaxClock
    /\ NoTools

\* An exception: its class and the parts of its message.
Exc(type, msg) == [type |-> type, msg |-> msg]

\* Subclasses of ccxt.BaseError raised by the requests of a client.
CcxtErrors == {"NetworkError", "ExchangeError"}

\* A wrapper turning every exception into RuntimeError.
handle_ccxt_error_wrap_all(e) == Exc("RuntimeError", <<"tool failed">> \o e.msg)

\* The wrapper of handle_ccxt_error: a ccxt error is re-raised as it is,
\* any other exception becomes RuntimeError("<tool failed>: {e}").
handle_ccxt_error(e) ==
    IF e.type \in CcxtErrors THEN e
    ELSE Exc("RuntimeError", <<"tool failed">> \o e.msg)

\* The library as the tools meet it: the constructor works or raises.
ToolLibs == {[raises |-> r, readback |-> "kept"] : r \in BOOLEAN}

\* A tool is called: its locals.
Frame(op, account_id, args) ==
    [op |-> op, id |-> account_id, args |-> args, built |-> 0, ex |-> 0, tmp |-> 0,
     results |-> <<>>, todo |-> <<>>, error |-> None, value |-> NoValue]

Enter(t, op, account_id, args, at) ==
    /\ tpc[t] = "idle"
    /\ frame' = Set(frame, t, Frame(op, account_id, args))
    /\ tpc' = Set(tpc, t, at)
    /\ UNCHANGED <<configVars, clients, cache, wire, logs>>

\* An exception leaves the tool through the wrapper.
Raise(t, e) ==
    /\ frame' = Set(frame, t, [frame[t] EXCEPT !.error = Some(handle_ccxt_error(e))])
    /\ tpc' = Set(tpc, t, "done")

\* The tool returns a value.
Result(t, v) ==
    /\ frame' = Set(frame, t, [frame[t] EXCEPT !.value = v])
    /\ tpc' = Set(tpc, t, "done")

\* The exception get_account raises for an outcome.
AccountError(r, account_id) ==
    IF r.status = "AccountNotFound"
    THEN Exc("ValueError", <<"no such account", account_id>>)
    ELSE Exc("RuntimeError", <<"decryption failed">>)

\* The exception create_exchange raises for an outcome.
FactoryError(c) ==
    IF c.status = "MissingCredential"
    THEN Exc("ValueError", <<"missing field", c.field>>)
    ELSE Exc("RuntimeError", <<"exchange construction failed">>)

\* A request of a client to the exchange.
Request(t, on, endpoint, params, reply) ==
    [by |-> t, on |-> on, endpoint |-> endpoint, params |-> params, reply |-> reply]

\* options['defaultType'] of a client: the segment its unified methods
\* (fetch_balance, fetch_positions, create_order, ...) address when called.
defaultType(n) == clients[n].obj.options.defaultType

\* A request of a unified method, with the segment it is sent to.
RequestIn(segment, t, on, endpoint, params, reply) ==
    [by |-> t, on |-> on, endpoint |-> endpoint, params |-> params, reply |-> reply,
     segment |-> segment]

\* What comes back: data, or an exception raised in the caller.
Reply(kind, data) == [ok |-> TRUE, kind |-> kind, data |-> data]
Failure(e) == [ok |-> FALSE, error |-> e]

(* _get_exchange *)

\* A variant of the cache test that never finds the handle.
GetCheck_always_build(t) ==
    /\ tpc[t] = "get_check"
    /\ tpc' = Set(tpc, t, "get_build")
    /\ UNCHANGED <<configVars, clients, cache, frame, wire, logs>>

\* if account_id not in self._exchange_cache
GetCheck(t) ==
    /\ tpc[t] = "get_check"
    /\ tpc' = Set(tpc, t, IF frame[t].id \in DOMAIN cache THEN "get_return" ELSE "get_build")
    /\ UNCHANGED <<configVars, clients, cache, frame, wire, logs>>

\* get_account and create_exchange
GetBuild(t, lib) ==
    /\ tpc[t] = "get_build"
    /\ LET r == get_account(config[Server], cipher[Server], frame[t].id)
           c == create_exchange(r.value, lib)
       IN  IF r.status # "ok"
           THEN Raise(t, AccountError(r, frame[t].id)) /\ UNCHANGED <<clients, logs>>
           ELSE IF c.status # "ok"
           THEN Raise(t, FactoryError(c)) /\ UNCHANGED <<clients, logs>>
           ELSE /\ Len(clients) < MaxClients
                /\ clients' = Append(clients, [kind |-> "handle", account |-> frame[t].id,
                                               obj |-> c.client[1]])
                /\ frame' = Set(frame, t, [frame[t] EXCEPT !.built = Len(clients) + 1])
                /\ tpc' = Set(tpc, t, "get_insert")
                /\ logs' = logs \o c.warnings
    /\ UNCHANGED <<configVars, cache, wire>>

\* self._exchange_cache[account_id] = exchange
GetInsert(t) ==
    /\ tpc[t] = "get_insert"
    /\ cache' = DictSet(cache, frame[t].id, frame[t].built)
    /\ tpc' = Set(tpc, t, "get_return")
    /\ UNCHANGED <<configVars, clients, frame, wire, logs>>

\* return self._exchange_cache[account_id]
GetReturn(t) ==
    /\ tpc[t] = "get_return"
    /\ IF frame[t].id \in DOMAIN cache
       THEN /\ frame' = Set(frame, t, [frame[t] EXCEPT !.ex = cache[frame[t].id]])
            /\ tpc' = Set(tpc, t, "body")
       ELSE Raise(t, Exc("KeyError", <<frame[t].id>>))
    /\ UNCHANGED <<configVars, clients, cache, wire, logs>>

GetExchange(t) ==
    \/ GetCheck(t)
    \/ \E lib \in ToolLibs : GetBuild(t, lib)
    \/ GetInsert(t)
    \/ GetReturn(t)

\* clear_exchange_cache
ClearExchangeCache(t) ==
    /\ tpc[t] = "idle"
    /\ cache' = NoDict
    /\ UNCHANGED <<configVars, clients, tpc, frame, wire, logs>>

(* cancel_order *)

CancelOrder(t, account_id) ==
    Enter(t, "cancel_order", account_id, [order_id |-> "o1", symbol |-> "BTC/USDT"], "get_check")

\* exchange.cancel_order(order_id, symbol, params)
CancelOrderBody(t, e) ==
    /\ tpc[t] = "body"
    /\ frame[t].op = "cancel_order"
    /\ wire' = Append(wire, Request(t, frame[t].ex, "cancel_order", frame[t].args,
                                    IF e = None THEN Reply("dict", [id |-> "o1"]) ELSE Failure(e[1])))
    /\ IF e = None THEN Result(t, [id |-> "o1"]) ELSE Raise(t, e[1])
    /\ UNCHANGED <<configVars, clients, cache, logs>>

\* What a request may raise.
RequestErrors == {None, Some(Exc("ExchangeError", <<"binance">>))}

\* Two threads of the server calling the tools of one BinanceMCPTools.
NextCallers ==
    \E t \in Callers :
        \/ \E a \in Ids : CancelOrder(t, a)
        \/ GetExchange(t)
        \/ \E e \in RequestErrors : CancelOrderBody(t, e)
        \/ ClearExchangeCache(t)
        \/ Finish(t)

SpecCallers == InitTools /\ [][NextCallers]_vars

(* get_balance *)

\* The most records in one reply of the unified-balance endpoint.
MaxAssets == 2

\* float() of the decimal strings of the exchange.
float(x) ==
    CASE x = "0" -> 0
      [] x = "5" -> 5
      [] x = "10" -> 10
      [] x = "20" -> 20
      [] x = "-5" -> 0 - 5

\* float(asset.get(key, 0))
FloatOr0(asset, key) == IF key \in DOMAIN asset THEN float(asset[key]) ELSE 0

max(a, b) == IF b > a THEN b ELSE a

\* Records of the unified-balance reply: complete, free above total, keys
\* missing, an empty asset name, no asset key, a negative wallet balance.
AssetRecords ==
    { [asset |-> "USDT", crossMarginFree |-> "10", umWalletBalance |-> "5",
       cmWalletBalance |-> "0", totalWalletBalance |-> "20"],
      [asset |-> "BTC", crossMarginFree |-> "10", umWalletBalance |-> "10",
       cmWalletBalance |-> "5", totalWalletBalance |-> "20"],
      [asset |-> "ETH", totalWalletBalance |-> "5"],
      [asset |-> "", crossMarginFree |-> "5", umWalletBalance |-> "5",
       cmWalletBalance |-> "5", totalWalletBalance |-> "20"],
      [crossMarginFree |-> "5"],
      [asset |-> "BNB", crossMarginFree |-> "0", umWalletBalance |-> "-5",
       cmWalletBalance |-> "0", totalWalletBalance |-> "0"] }

\* The replies of the endpoint: a list with one record for an asset.
BalanceLists ==
    { l \in UNION {[1..n -> AssetRecords] : n \in 0..MaxAssets} :
        \A i, j \in DOMAIN l : i # j => l[i] # l[j] }

\* The entry get_balance builds for one record, without the max().
balance_entry_signed(asset) ==
    LET cross_margin_free == FloatOr0(asset, "crossMarginFree")
        um_wallet_balance == FloatOr0(asset, "umWalletBalance")
        cm_wallet_balance == FloatOr0(asset, "cmWalletBalance")
        total_available == cross_margin_free + um_wallet_balance + cm_wallet_balance
        total_wallet_balance == FloatOr0(asset, "totalWalletBalance")
    IN  [free |-> total_available,
         used |-> total_wallet_balance - total_available,
         total |-> total_wallet_balance,
         crossMarginFree |-> cross_margin_free,
         umWalletBalance |-> um_wallet_balance,
         cmWalletBalance |-> cm_wallet_balance]

\* The entry get_balance builds for one record.
balance_entry(asset) ==
    LET cross_margin_free == FloatOr0(asset, "crossMarginFree")
        um_wallet_balance == FloatOr0(asset, "umWalletBalance")
        cm_wallet_balance == FloatOr0(asset, "cmWalletBalance")
        total_available == cross_margin_free + um_wallet_balance + cm_wallet_balance
        total_wallet_balance == FloatOr0(asset, "totalWalletBalance")
    IN  [free |-> total_available,
         used |-> max(0, total_wallet_balance - total_available),
         total |-> total_wallet_balance,
         crossMarginFree |-> cross_margin_free,
         umWalletBalance |-> um_wallet_balance,
         cmWalletBalance |-> cm_wallet_balance]

\* The loop of get_balance over the list, from an empty result.
RECURSIVE normalized(_, _)
normalized(balance_data, result) ==
    IF balance_data = <<>> THEN result
    ELSE LET asset == Head(balance_data)
             currency == GetOr(asset, "asset", "")
         IN  normalized(Tail(balance_data),
                        IF currency # ""
                        THEN DictSet(result, currency, balance_entry(asset))
                        ELSE result)

\* The dict a standard balance-fetch returns.
CcxtBalance == [USDT |-> [free |-> 10, used |-> 0, total |-> 10]]

BalanceReplies ==
    {Failure(Exc("ExchangeError", <<"binance">>)), Reply("dict", CcxtBalance)}
    \cup {Reply("list", l) : l \in BalanceLists}

\* _create_spot_only_exchange passing the unified flag on.
spot_only_exchange_unified(account_config) ==
    [apiKey |-> account_config["api_key"],
     secret |-> account_config["secret"],
     sandbox |-> GetOr(account_config, "sandbox", FALSE),
     enableRateLimit |-> TRUE,
     options |-> [defaultType |-> "spot", broker |-> [spot |-> "C96E9MGA"],
                  portfolioMargin |-> GetOr(account_config, "portfolio_margin", FALSE)]]

\* _create_spot_only_exchange: ccxt.binance of a config without the flag.
_create_spot_only_exchange(account_config) ==
    [apiKey |-> account_config["api_key"],
     secret |-> account_config["secret"],
     sandbox |-> GetOr(account_config, "sandbox", FALSE),
     enableRateLimit |-> TRUE,
     options |-> [defaultType |-> "spot", broker |-> [spot |-> "C96E9MGA"]]]

SetDefaultType(n, type) ==
    [clients EXCEPT ![n].obj.options.defaultType = type]

AccountTypes == {"spot", "future", "option", "margin"}

GetBalance(t, account_id, account_type) ==
    Enter(t, "get_balance", account_id, [account_type |-> account_type], "get_check")

\* get_balance after _get_exchange: the mode of the account decides.
GetBalanceBody(t, reply) ==
    /\ tpc[t] = "body"
    /\ frame[t].op = "get_balance"
    /\ LET r == get_account(config[Server], cipher[Server], frame[t].id)
           account_type == frame[t].args.account_type
       IN  IF r.status # "ok"
           THEN Raise(t, AccountError(r, frame[t].id)) /\ UNCHANGED <<clients, wire>>
           ELSE IF GetOr(r.value, "portfolio_margin", FALSE)
           THEN IF account_type \in {"future", "option", "margin"}
                THEN /\ wire' = Append(wire,
                           Request(t, frame[t].ex, "papi_get_balance", NoDict, reply))
                     /\ IF ~reply.ok
                        THEN Raise(t, reply.error)
                        ELSE IF reply.kind = "list"
                        THEN Result(t, normalized(reply.data, NoDict))
                        ELSE Result(t, reply.data)
                     /\ UNCHANGED clients
                ELSE /\ tpc' = Set(tpc, t, "spot_build")
                     /\ UNCHANGED <<clients, frame, wire>>
           ELSE /\ clients' = SetDefaultType(frame[t].ex,
                                  IF account_type \in {"future", "option"}
                                  THEN account_type ELSE "spot")
                /\ tpc' = Set(tpc, t, "fetch_balance")
                /\ UNCHANGED <<frame, wire>>
    /\ UNCHANGED <<configVars, cache, logs>>

\* A variant sending the request under the segment of the call's own
\* account_type, whatever the handle holds.
FetchBalance_own_segment(t, reply) ==
    /\ tpc[t] = "fetch_balance"
    /\ IF reply.ok THEN reply.kind = "dict" ELSE TRUE
    /\ wire' = Append(wire, RequestIn(IF frame[t].args.account_type \in {"future", "option"}
                                      THEN frame[t].args.account_type ELSE "spot",
                                      t, frame[t].ex, "fetch_balance", NoDict, reply))
    /\ IF reply.ok THEN Result(t, reply.data) ELSE Raise(t, reply.error)
    /\ UNCHANGED <<configVars, clients, cache, logs>>

\* return exchange.fetch_balance(params), on the handle as it is by now
FetchBalance(t, reply) ==
    /\ tpc[t] = "fetch_balance"
    /\ IF reply.ok THEN reply.kind = "dict" ELSE TRUE
    /\ wire' = Append(wire, RequestIn(defaultType(frame[t].ex), t, frame[t].ex,
                                      "fetch_balance", NoDict, reply))
    /\ IF reply.ok THEN Result(t, reply.data) ELSE Raise(t, reply.error)
    /\ UNCHANGED <<configVars, clients, cache, logs>>

\* get_account again and _create_spot_only_exchange(account_config)
SpotBuild(t, lib) ==
    /\ tpc[t] = "spot_build"
    /\ LET r == get_account(config[Server], cipher[Server], frame[t].id)
       IN  IF r.status # "ok"
           THEN Raise(t, AccountError(r, frame[t].id)) /\ UNCHANGED clients
           ELSE IF lib.raises
           THEN Raise(t, Exc("Exception", <<"ccxt.binance">>)) /\ UNCHANGED clients
           ELSE /\ Len(clients) < MaxClients
                /\ clients' = Append(clients,
                      [kind |-> "spot_only", account |-> frame[t].id,
                       obj |-> _create_spot_only_exchange(r.value)])
                /\ frame' = Set(frame, t, [frame[t] EXCEPT !.tmp = Len(clients) + 1])
                /\ tpc' = Set(tpc, t, "spot_fetch")
    /\ UNCHANGED <<configVars, cache, wire, logs>>

\* spot_exchange.fetch_balance(params)
SpotFetch(t, reply) ==
    /\ tpc[t] = "spot_fetch"
    /\ IF reply.ok THEN reply.kind = "dict" ELSE TRUE
    /\ wire' = Append(wire, Request(t, frame[t].tmp, "fetch_balance", NoDict, reply))
    /\ IF reply.ok THEN Result(t, reply.data) ELSE Raise(t, reply.error)
    /\ UNCHANGED <<configVars, clients, cache, logs>>

Balance(t) ==
    \/ \E a \in Ids, account_type \in AccountTypes : GetBalance(t, a, account_type)
    \/ \E reply \in BalanceReplies : GetBalanceBody(t, reply)
    \/ \E reply \in BalanceReplies : FetchBalance(t, reply)
    \/ \E lib \in ToolLibs : SpotBuild(t, lib)
    \/ \E reply \in BalanceReplies : SpotFetch(t, reply)

(* create_futures_order, create_contract_order *)

\* str.upper() of the sides and order types of the callers.
upper(x) ==
    CASE x \in {"buy", "BUY"} -> "BUY"
      [] x \in {"sell", "SELL"} -> "SELL"
      [] x \in {"limit", "LIMIT"} -> "LIMIT"
      [] x \in {"market", "MARKET"} -> "MARKET"

\* str.replace(old, ''), a symbol being the sequence of its parts.
replace(x, old) == SelectSeq(x, LAMBDA c : c # old)

\* Symbols as the callers write them: the market id, the ccxt spot form and
\* the ccxt form of a linear contract ("BTC/USDT:USDT").
Symbols ==
    { <<"BTCUSDT">>, <<"BTC", "/", "USDT">>, <<"BTC", "/", "USDT", ":", "USDT">> }

\* side, order_type and price of an order: limit orders with their price,
\* market orders with and without one, in either case of the letters.
OrderCases ==
    { <<"buy", "limit", Some(100)>>,
      <<"sell", "limit", Some(100)>>,
      <<"BUY", "LIMIT", Some(100)>>,
      <<"buy", "market", None>>,
      <<"sell", "market", Some(100)>>,
      <<"sell", "MARKET", Some(100)>> }

OrderTools == {"create_futures_order", "create_contract_order"}

\* order_params of the unified branch (no extra params given).
order_params(symbol, side, amount, order_type, price) ==
    [symbol |-> replace(symbol, "/"),
     side |-> upper(side),
     type |-> upper(order_type),
     quantity |-> amount,
     positionSide |-> IF upper(side) = "BUY" THEN "LONG" ELSE "SHORT"]
    @@ (IF order_type # "market" /\ price # None THEN "price" :> price[1] ELSE NoDict)

CreateOrder(t, op, account_id, symbol, c, contract_type) ==
    Enter(t, op, account_id,
          [symbol |-> symbol, side |-> c[1], amount |-> 1, order_type |-> c[2],
           price |-> c[3], contract_type |-> contract_type],
          "get_check")

OrderReplies ==
    {Failure(Exc("ExchangeError", <<"binance">>)), Reply("dict", [id |-> "o1"])}

\* The order tools after _get_exchange.
CreateOrderBody(t, reply) ==
    /\ tpc[t] = "body"
    /\ frame[t].op \in OrderTools
    /\ LET r == get_account(config[Server], cipher[Server], frame[t].id)
           a == frame[t].args
       IN  IF r.status # "ok"
           THEN Raise(t, AccountError(r, frame[t].id)) /\ UNCHANGED <<clients, wire>>
           ELSE /\ IF GetOr(r.value, "portfolio_margin", FALSE)
                   THEN /\ wire' = Append(wire,
                              Request(t, frame[t].ex, "papiPostUmOrder",
                                      order_params(a.symbol, a.side, a.amount,
                                                   a.order_type, a.price),
                                      reply))
                        /\ UNCHANGED clients
                   ELSE /\ clients' = SetDefaultType(frame[t].ex,
                              IF frame[t].op = "create_contract_order"
                                 /\ a.contract_type = "delivery"
                              THEN "delivery" ELSE "future")
                        /\ wire' = Append(wire,
                              Request(t, frame[t].ex, "create_order", a, reply))
                /\ IF reply.ok THEN Result(t, reply.data) ELSE Raise(t, reply.error)
    /\ UNCHANGED <<configVars, cache, logs>>

Orders(t) ==
    \/ \E a \in Ids, symbol \in Symbols, c \in OrderCases :
          CreateOrder(t, "create_futures_order", a, symbol, c, "future")
    \/ \E a \in Ids, symbol \in Symbols, c \in OrderCases,
          contract_type \in {"future", "delivery"} :
          CreateOrder(t, "create_contract_order", a, symbol, c, contract_type)
    \/ \E reply \in OrderReplies : CreateOrderBody(t, reply)

(* transfer_funds *)

\* from_account and to_account of a transfer.
Wallets == {"spot", "margin", "future", "option"}

\* The client transfer_funds builds: no portfolioMargin, no defaultType.
transfer_exchange(account_config) ==
    [apiKey |-> account_config["api_key"],
     secret |-> account_config["secret"],
     sandbox |-> GetOr(account_config, "sandbox", FALSE),
     enableRateLimit |-> TRUE,
     options |-> [broker |-> [spot |-> "C96E9MGA", future |-> "eFC56vBf",
                             option |-> "eFC56vBf"]]]

\* transfer_type_map of the direct transfers.
transfer_type_map ==
    (<<"spot", "margin">> :> "MAIN_MARGIN") @@ (<<"margin", "spot">> :> "MARGIN_MAIN")
    @@ (<<"margin", "future">> :> "MARGIN_UMFUTURE")
    @@ (<<"future", "margin">> :> "UMFUTURE_MARGIN")

\* A variant issuing the two steps of future -> spot in the other order.
transfer_steps_swapped(from_account, to_account) ==
    IF from_account = "spot" /\ to_account = "future" THEN <<"MAIN_MARGIN">>
    ELSE IF from_account = "future" /\ to_account = "spot"
    THEN <<"MARGIN_MAIN", "UMFUTURE_MARGIN">>
    ELSE IF <<from_account, to_account>> \in DOMAIN transfer_type_map
    THEN <<transfer_type_map[<<from_account, to_account>>]>>
    ELSE <<>>

\* The 'type' of the sapi_post_asset_transfer calls of the unified branch, in
\* the order of the code; no call for a pair that is not supported.
transfer_steps(from_account, to_account) ==
    IF from_account = "spot" /\ to_account = "future" THEN <<"MAIN_MARGIN">>
    ELSE IF from_account = "future" /\ to_account = "spot"
    THEN <<"UMFUTURE_MARGIN", "MARGIN_MAIN">>
    ELSE IF <<from_account, to_account>> \in DOMAIN transfer_type_map
    THEN <<transfer_type_map[<<from_account, to_account>>]>>
    ELSE <<>>

\* What the unified branch returns once its calls have returned.
transfer_result(from_account, to_account, results) ==
    IF from_account = "spot" /\ to_account = "future"
    THEN [tranId |-> results[1].tranId, status |-> "completed",
          message |-> "moved to margin balance"]
    ELSE IF from_account = "future" /\ to_account = "spot"
    THEN [step1 |-> results[1], step2 |-> results[2], tranId |-> results[2].tranId,
          status |-> "completed", message |-> "future -> margin -> spot"]
    ELSE results[1]

TransferFunds(t, account_id, currency, amount, from_account, to_account) ==
    Enter(t, "transfer_funds", account_id,
          [currency |-> currency, amount |-> amount,
           from_account |-> from_account, to_account |-> to_account],
          "transfer_build")

\* get_account, ccxt.binance({...}), get_account, is_portfolio_margin
TransferBuild(t, lib) ==
    /\ tpc[t] = "transfer_build"
    /\ LET r == get_account(config[Server], cipher[Server], frame[t].id)
       IN  IF r.status # "ok"
           THEN Raise(t, AccountError(r, frame[t].id)) /\ UNCHANGED clients
           ELSE IF lib.raises
           THEN Raise(t, Exc("Exception", <<"ccxt.binance">>)) /\ UNCHANGED clients
           ELSE /\ Len(clients) < MaxClients
                /\ clients' = Append(clients,
                      [kind |-> "transfer", account |-> frame[t].id,
                       obj |-> transfer_exchange(r.value)])
                /\ frame' = Set(frame, t, [frame[t] EXCEPT !.tmp = Len(clients) + 1])
                /\ tpc' = Set(tpc, t,
                      IF GetOr(r.value, "portfolio_margin", FALSE)
                      THEN "load_markets" ELSE "transfer")
    /\ UNCHANGED <<configVars, cache, wire, logs>>

TransferReplies ==
    {Failure(Exc("ExchangeError", <<"binance">>)),
     Failure(Exc("NetworkError", <<"binance">>)),
     Reply("dict", [tranId |-> 7]), Reply("dict", [tranId |-> 8])}

\* transfer_exchange.load_markets(), then the choice of the branch.
LoadMarkets(t, reply) ==
    /\ tpc[t] = "load_markets"
    /\ wire' = Append(wire, Request(t, frame[t].tmp, "load_markets", NoDict, reply))
    /\ LET a == frame[t].args
       IN  IF ~reply.ok THEN Raise(t, reply.error)
           ELSE IF transfer_steps(a.from_account, a.to_account) = <<>>
           THEN Raise(t, Exc("ValueError",
                             <<"unsupported transfer", a.from_account, a.to_account>>))
           ELSE /\ tpc' = Set(tpc, t, "sapi_transfer")
                /\ UNCHANGED frame
    /\ UNCHANGED <<configVars, clients, cache, logs>>

\* The next transfer_exchange.sapi_post_asset_transfer({...}) of the branch.
SapiTransfer(t, reply) ==
    /\ tpc[t] = "sapi_transfer"
    /\ LET a == frame[t].args
           steps == transfer_steps(a.from_account, a.to_account)
           n == Len(frame[t].results) + 1
           results == IF reply.ok THEN Append(frame[t].results, reply.data)
                      ELSE frame[t].results
       IN  /\ wire' = Append(wire,
                 Request(t, frame[t].tmp, "sapi_post_asset_transfer",
                         [type |-> steps[n], asset |-> a.currency, amount |-> a.amount],
                         reply))
           /\ IF ~reply.ok THEN Raise(t, reply.error)
              ELSE IF n = Len(steps)
              THEN Result(t, transfer_result(a.from_account, a.to_account, results))
              ELSE /\ frame' = Set(frame, t, [frame[t] EXCEPT !.results = results])
                   /\ UNCHANGED tpc
    /\ UNCHANGED <<configVars, clients, cache, logs>>

\* transfer_exchange.transfer(currency, amount, from_account, to_account, params)
CcxtTransfer(t, reply) ==
    /\ tpc[t] = "transfer"
    /\ wire' = Append(wire, Request(t, frame[t].tmp, "transfer", frame[t].args, reply))
    /\ IF reply.ok THEN Result(t, reply.data) ELSE Raise(t, reply.error)
    /\ UNCHANGED <<configVars, clients, cache, logs>>

Transfers(t) ==
    \/ \E a \in Ids, currency \in {"USDT"}, amount \in {5, 10},
          from_account \in Wallets, to_account \in Wallets :
          TransferFunds(t, a, currency, amount, from_account, to_account)
    \/ \E lib \in ToolLibs : TransferBuild(t, lib)
    \/ \E reply \in {Failure(Exc("NetworkError", <<"binance">>)),
                      Reply("dict", [markets |-> 1])} :
          LoadMarkets(t, reply)
    \/ \E reply \in TransferReplies : SapiTransfer(t, reply)
    \/ \E reply \in TransferReplies : CcxtTransfer(t, reply)

(* get_positions, close_position *)

\* The most positions fetch_positions returns for one symbol.
MaxPositions == 2

\* Positions as ccxt parses them: the side and the size in contracts.
PositionLists ==
    UNION {[1..n -> [side : {"long", "short"}, contracts : {0, 2}]] :
              n \in 0..MaxPositions}

PositionReplies ==
    {Failure(Exc("ExchangeError", <<"binance">>))}
    \cup {Reply("list", l) : l \in PositionLists}

GetPositions(t, account_id) ==
    Enter(t, "get_positions", account_id, [symbols |-> None], "get_check")

\* exchange.fetch_positions(symbols, params)
GetPositionsBody(t, reply) ==
    /\ tpc[t] = "body"
    /\ frame[t].op = "get_positions"
    /\ wire' = Append(wire, RequestIn(defaultType(frame[t].ex), t, frame[t].ex,
                                      "fetch_positions", frame[t].args, reply))
    /\ IF reply.ok THEN Result(t, reply.data) ELSE Raise(t, reply.error)
    /\ UNCHANGED <<configVars, clients, cache, logs>>

ClosePosition(t, account_id, side) ==
    Enter(t, "close_position", account_id, [symbol |-> "BTCUSDT", side |-> side],
          "get_check")

\* positions = exchange.fetch_positions([symbol])
ClosePositionFetch(t, reply) ==
    /\ tpc[t] = "body"
    /\ frame[t].op = "close_position"
    /\ wire' = Append(wire, RequestIn(defaultType(frame[t].ex), t, frame[t].ex,
                                      "fetch_positions",
                                      [symbols |-> Some(frame[t].args.symbol)], reply))
    /\ IF reply.ok
       THEN /\ frame' = Set(frame, t, [frame[t] EXCEPT !.todo = reply.data])
            /\ tpc' = Set(tpc, t, "close_loop")
       ELSE Raise(t, reply.error)
    /\ UNCHANGED <<configVars, clients, cache, logs>>

\* A variant closing a position with an order of the position's own side.
close_side_same(position_side) == IF position_side = "long" THEN "buy" ELSE "sell"

\* close_side = 'sell' if position_side == 'long' else 'buy'
close_side(position_side) == IF position_side = "long" THEN "sell" ELSE "buy"

\* if position['contracts'] > 0 ... if side is None or position_side == side
ToClose(position, side) ==
    /\ position.contracts > 0
    /\ IF side = None THEN TRUE ELSE position.side = side[1]

\* The loop passes a position it does not close.
CloseSkip(t) ==
    /\ tpc[t] = "close_loop"
    /\ frame[t].todo # <<>>
    /\ ~ToClose(Head(frame[t].todo), frame[t].args.side)
    /\ frame' = Set(frame, t, [frame[t] EXCEPT !.todo = Tail(@)])
    /\ UNCHANGED <<configVars, clients, cache, tpc, wire, logs>>

\* exchange.create_market_order(symbol, close_side, close_amount, None, params)
CloseOrder(t, reply) ==
    /\ tpc[t] = "close_loop"
    /\ frame[t].todo # <<>>
    /\ ToClose(Head(frame[t].todo), frame[t].args.side)
    /\ LET position == Head(frame[t].todo)
       IN  wire' = Append(wire,
              RequestIn(defaultType(frame[t].ex), t, frame[t].ex, "create_market_order",
                        [symbol |-> frame[t].args.symbol,
                         side |-> close_side(position.side),
                         amount |-> position.contracts],
                        reply))
    /\ IF reply.ok
       THEN /\ frame' = Set(frame, t, [frame[t] EXCEPT !.todo = Tail(@),
                                                     !.results = Append(@, reply.data)])
            /\ UNCHANGED tpc
       ELSE Raise(t, reply.error)
    /\ UNCHANGED <<configVars, clients, cache, logs>>

\* return {"closed_positions": results}
CloseReturn(t) ==
    /\ tpc[t] = "close_loop"
    /\ frame[t].todo = <<>>
    /\ Result(t, [closed_positions |-> frame[t].results])
    /\ UNCHANGED <<configVars, clients, cache, wire, logs>>

Positions(t) ==
    \/ \E a \in Ids : GetPositions(t, a)
    \/ \E reply \in PositionReplies : GetPositionsBody(t, reply)
    \/ \E a \in Ids, side \in {None, Some("long"), Some("short")} :
          ClosePosition(t, a, side)
    \/ \E reply \in PositionReplies : ClosePositionFetch(t, reply)
    \/ CloseSkip(t)
    \/ \E reply \in {Failure(Exc("ExchangeError", <<"binance">>)),
                      Reply("dict", [id |-> "o1"]), Reply("dict", [id |-> "o2"])} :
          CloseOrder(t, reply)
    \/ CloseReturn(t)

\* One caller at a time using the tools of the server.
NextTools ==
    \/ GetExchange("t1")
    \/ Balance("t1")
    \/ Orders("t1")
    \/ Transfers("t1")
    \/ Positions("t1")
    \/ Finish("t1")

SpecTools == InitTools /\ [][NextTools]_vars

\* One thread using the ConfigManager and the tools built over it, one call
\* after the other.
NextRegistry ==
    \/ tpc["t1"] = "idle" /\ Mutate(Server, Ids, SharedAdds, SharedCases)
    \/ tpc["t1"] = "idle" /\ Save(Server)
    \/ tpc["t1"] = "idle" /\ Observe(Server, Ids)
    \/ pc[Server] = "ready" /\ \E a \in Ids : CancelOrder("t1", a)
    \/ pc[Server] = "ready" /\ GetExchange("t1")
    \/ pc[Server] = "ready" /\ \E e \in RequestErrors : CancelOrderBody("t1", e)
    \/ pc[Server] = "ready" /\ ClearExchangeCache("t1")
    \/ pc[Server] = "ready" /\ Finish("t1")

SpecRegistry == InitTools /\ [][NextRegistry]_vars

\* Two threads of the server querying balances and positions; the exchange
\* answers a balance query with a ccxt balance or with an error.
NextSegments ==
    \E t \in Callers :
        \/ \E a \in Ids, account_type \in {"spot", "future"} : GetBalance(t, a, account_type)
        \/ \E a \in Ids : GetPositions(t, a)
        \/ GetExchange(t)
        \/ \E reply \in {Failure(Exc("ExchangeError", <<"binance">>)),
                          Reply("dict", CcxtBalance)} :
              \/ GetBalanceBody(t, reply)
              \/ FetchBalance(t, reply)
              \/ SpotFetch(t, reply)
        \/ \E lib \in ToolLibs : SpotBuild(t, lib)
        \/ GetPositionsBody(t, Reply("list", <<>>))
        \/ Finish(t)

SpecSegments == InitTools /\ [][NextSegments]_vars

(* ------------------------------ claims -------------------------------- *)

\* The object exists: __init__ has returned.
Constructed(i) ==
    /\ pc[i] \in {"ready", "returned", "save_open", "save_write"}
    /\ call[i].op # "init"

Tokens(doc) ==
    \A a \in DOMAIN doc.accounts :
        /\ doc.accounts[a].api_key.form = "token"
        /\ doc.accounts[a].secret.form = "token"

\* C1: in every reachable state, the api_key and the secret of every record
\* of every in-memory table and of the table on disk are tokens made by
\* encrypt_value, never the plaintext the caller supplied.
C1_StoredEncrypted ==
    /\ \A i \in Instances :
          /\ Tokens(config[i])
          /\ \A a \in DOMAIN config[i].accounts :
                Constructed(i) =>
                    /\ config[i].accounts[a].api_key # Str(supplied[i][a].api_key)
                    /\ config[i].accounts[a].secret # Str(supplied[i][a].secret)
    /\ configFile.st = "full" => Tokens(configFile.doc)

C1_Witness ==
    \E i \in Instances :
        /\ call[i].op = "add"
        /\ call[i].status = "ok"
        /\ configFile.st = "full"
        /\ call[i].id \in DOMAIN configFile.doc.accounts
        /\ configFile.doc.accounts[call[i].id].secret.pt = "y"

\* C2: an add_account whose account_id is already in the table ends with
\* the duplicate-account error and changes neither the in-memory table
\* (the record of that id and every other record) nor the file.
C2_DuplicateAddRejected ==
    [][\A i \in Instances :
          (/\ pc[i] = "ready"
           /\ call'[i].op = "add"
           /\ call'[i].id \in DOMAIN config[i].accounts)
          => /\ call'[i].status = "DuplicateAccount"
             /\ pc'[i] = "returned"
             /\ config'[i] = config[i]
             /\ configFile' = configFile]_vars

C2_Witness ==
    \E i \in Instances :
        /\ call[i].op = "add"
        /\ call[i].status = "DuplicateAccount"
        /\ "updated_at" \in DOMAIN config[i].accounts[call[i].id]

\* C3: for every account present in the table, get_account returns the
\* api_key and the secret most recently supplied for it by add_account or
\* update_account, and the sandbox flag most recently supplied.
C3_GetReturnsSupplied ==
    \A i \in Instances :
        Constructed(i) =>
            \A a \in DOMAIN config[i].accounts :
                LET r == get_account(config[i], cipher[i], a)
                IN  /\ r.status = "ok"
                    /\ r.value.api_key = supplied[i][a].api_key
                    /\ r.value.secret = supplied[i][a].secret
                    /\ r.value.sandbox = supplied[i][a].sandbox
                    /\ (call[i].op = "get" /\ call[i].id = a)
                          => call[i].status = "ok" /\ call[i].value = r.value

C3_Witness ==
    \E i \in Instances :
        /\ call[i].op = "get"
        /\ call[i].status = "ok"
        /\ call[i].value.api_key = "y"
        /\ call[i].value.secret = ""
        /\ call[i].value.sandbox = FALSE

\* C4: list_accounts has an entry for exactly the accounts of the table, and
\* no entry has an api_key or a secret field.
C4_ListHidesSecrets ==
    \A i \in Instances :
        Constructed(i) =>
            LET l == list_accounts(config[i])
            IN  /\ DOMAIN l = DOMAIN config[i].accounts
                /\ \A a \in DOMAIN l : DOMAIN l[a] \cap {"api_key", "secret"} = {}
                /\ call[i].op = "list" => call[i].value = l

C4_Witness ==
    \E i \in Instances :
        /\ call[i].op = "list"
        /\ Cardinality(DOMAIN call[i].value) = 2
        /\ \E a \in DOMAIN call[i].value : call[i].value[a].sandbox

\* C5: update_account on a present account changes, of the whole table, only
\* the supplied fields of that record and its updated_at: the fields not
\* supplied (api_key, secret, sandbox, description, created_at, any further
\* key such as portfolio_margin), every other record and the rest of the
\* table stay as they were.
C5_UpdateFrame ==
    [][\A i \in Instances :
          (/\ pc[i] = "ready"
           /\ call'[i].op = "update"
           /\ call'[i].id \in DOMAIN config[i].accounts)
          => LET a == call'[i].id
                 old == config[i].accounts[a]
                 new == config'[i].accounts[a]
             IN  /\ call'[i].status = "running"
                 /\ DOMAIN config'[i].accounts = DOMAIN config[i].accounts
                 /\ \A b \in DOMAIN config[i].accounts \ {a} :
                       config'[i].accounts[b] = config[i].accounts[b]
                 /\ config'[i].server = config[i].server
                 /\ DOMAIN new = DOMAIN old \cup {"updated_at"}
                 /\ \A f \in DOMAIN old \ (call'[i].args \cup {"updated_at"}) :
                       new[f] = old[f]
                 /\ new.updated_at = now]_vars

C5_Witness ==
    \E i \in Instances :
        /\ call[i].op = "update"
        /\ call[i].status = "ok"
        /\ call[i].args = {"description"}
        /\ Cardinality(DOMAIN config[i].accounts) = 2
        /\ "portfolio_margin" \in DOMAIN config[i].accounts[call[i].id]
        /\ config[i].accounts[call[i].id].description = "e"

\* What C6 says of the steps of an object, but for how a remove_account that
\* found its account ends.
RemoveSteps(i) ==
    /\ (/\ pc[i] = "ready"
        /\ call'[i].op = "remove"
        /\ call'[i].id \notin DOMAIN config[i].accounts)
       => /\ call'[i].status = "AccountNotFound"
          /\ pc'[i] = "returned"
          /\ config'[i] = config[i]
          /\ configFile' = configFile
    /\ (/\ pc[i] = "ready"
        /\ call'[i].op = "remove"
        /\ call'[i].id \in DOMAIN config[i].accounts)
       => /\ call'[i].status = "running"
          /\ config'[i].accounts = DictDel(config[i].accounts, call'[i].id)
    /\ Constructed(i) =>
          \A a \in Ids :
             /\ a \notin DOMAIN config[i].accounts
                   => get_account(config[i], cipher[i], a).status = "AccountNotFound"
             /\ (a \notin DOMAIN config[i].accounts /\ a \in DOMAIN config'[i].accounts)
                   => call'[i].op = "add" /\ call'[i].id = a
    /\ (/\ pc[i] = "ready"
        /\ call'[i].op = "get"
        /\ call'[i].id \notin DOMAIN config[i].accounts)
       => call'[i].status = "AccountNotFound"

RemoveReturns(i) ==
    /\ call[i].op = "remove"
    /\ call[i].status = "running"
    /\ pc'[i] = "returned"

\* C6 as amended: remove_account on an absent account fails with the
\* account-not-found error and changes neither table nor file; on a present
\* account it is never refused, deletes the record from the table and then
\* returns or, when writing the file fails, raises the save error; either
\* way get_account fails with account-not-found from then on, until an
\* add_account puts the id back.
C6_RemoveThenNotFound ==
    [][\A i \in Instances :
          /\ RemoveSteps(i)
          /\ RemoveReturns(i) => call'[i].status \in {"ok", "SaveFailed"}]_vars

\* C6 as written: ... remove_account on a present account succeeds ...
C6_RemoveSucceeds ==
    [][\A i \in Instances :
          /\ RemoveSteps(i)
          /\ RemoveReturns(i) => call'[i].status = "ok"]_vars

C6_Witness ==
    \E i \in Instances :
        /\ call[i].op = "get"
        /\ call[i].status = "AccountNotFound"
        /\ configFile.st = "full"
        /\ call[i].id \in DOMAIN configFile.doc.accounts

\* C7: config.json, once it holds a complete table, holds a complete table
\* at every later point, whatever step of whatever operation is taken or
\* cut short: the table it held before or the table of the object writing.
C7_AtomicPersist ==
    [][configFile.st = "full"
          => /\ configFile'.st = "full"
             /\ \/ configFile'.doc = configFile.doc
                \/ \E i \in Instances : configFile'.doc = config[i]]_vars

\* C8: an account whose add_account has returned, and which no object has
\* removed or updated since, is found, with the credentials of that add, by
\* get_account of every object constructed after the return.
C8_AddedAccountPersists ==
    \A a \in Ids, j \in Instances :
        (/\ durable[a] # None
         /\ j \in durable[a][1].insts
         /\ Constructed(j))
        => LET r == get_account(config[j], cipher[j], a)
           IN  /\ r.status = "ok"
               /\ r.value.api_key = durable[a][1].api_key
               /\ r.value.secret = durable[a][1].secret

\* C9: all objects over the directory hold the same key: what one encrypts,
\* every other decrypts to the plaintext.
C9_OneKey ==
    \A i, j \in Instances :
        (Constructed(i) /\ Constructed(j))
        => \A p \in Plain :
              decrypt_value(cipher[j], encrypt_value(cipher[i], p)) = [ok |-> TRUE, val |-> p]

\* C10: validate_account never raises, and answers True exactly when the
\* account is in the table, both credential fields decrypt, and both
\* plaintexts are non-empty.
C10_ValidateIff ==
    \A i \in Instances :
        Constructed(i) =>
            \A a \in Ids :
                LET v == validate_account(config[i], cipher[i], a)
                    good ==
                        /\ a \in DOMAIN config[i].accounts
                        /\ decrypt_value(cipher[i], config[i].accounts[a].api_key).ok
                        /\ decrypt_value(cipher[i], config[i].accounts[a].secret).ok
                        /\ config[i].accounts[a].api_key.pt # ""
                        /\ config[i].accounts[a].secret.pt # ""
                IN  /\ v.status = "ok"
                    /\ v.value.valid = good
                    /\ (call[i].op = "validate" /\ call[i].id = a)
                          => call[i].status = "ok" /\ call[i].value.valid = good

C10_Witness ==
    \E i \in Instances :
        /\ call[i].op = "validate"
        /\ call[i].status = "ok"
        /\ ~call[i].value.valid
        /\ call[i].id \in DOMAIN config[i].accounts
        /\ decrypt_value(cipher[i], config[i].accounts[call[i].id].api_key).ok
        /\ config[i].accounts[call[i].id].api_key.pt # ""
        /\ ~decrypt_value(cipher[i], config[i].accounts[call[i].id].secret).ok

\* C11: create_exchange fails with the missing-credential error exactly
\* when api_key or secret is absent or empty, whatever else the account
\* config holds, and then constructs no ccxt.binance object.
C11_MissingCredential ==
    \A t \in Callers :
        frame[t].op = "create_exchange" =>
            LET c == frame[t].account_config
                missing == \/ "api_key" \notin DOMAIN c
                           \/ "secret" \notin DOMAIN c
                           \/ c["api_key"] = ""
                           \/ c["secret"] = ""
            IN  /\ missing <=> frame[t].out.status = "MissingCredential"
                /\ missing => frame[t].out.built = 0 /\ frame[t].out.client = None

C11_Witness ==
    \E t \in Callers :
        /\ frame[t].op = "create_exchange"
        /\ frame[t].out.status = "MissingCredential"
        /\ frame[t].out.field = "secret"
        /\ "secret" \in DOMAIN frame[t].account_config
        /\ DOMAIN frame[t].account_config =
              {"api_key", "secret", "sandbox", "portfolio_margin", "passphrase"}

\* C12: whatever broker configuration is read back from the constructed
\* client, create_exchange returns the client, and the verification logs
\* one warning for each segment whose code is not the expected one.
C12_SoftVerification ==
    \A t \in Callers :
        (/\ frame[t].op = "create_exchange"
         /\ ~frame[t].lib.raises
         /\ frame[t].out.status # "MissingCredential")
        => /\ frame[t].out.status = "ok"
           /\ frame[t].out.client # None
           /\ logs = frame[t].out.warnings
           /\ \A n \in DOMAIN Segments :
                 LET m == Segments[n]
                     read == frame[t].out.client[1].options
                     differs == \/ "broker" \notin DOMAIN read
                                \/ m \notin DOMAIN read.broker
                                \/ read.broker[m] # BROKER_IDS[m]
                 IN  Cardinality({w \in DOMAIN logs : logs[w] = m})
                        = IF differs THEN 1 ELSE 0

\* C13: test_exchange_connection never raises; server_time reports the
\* public call and account_info the private call, each whatever the other
\* did; broker_injected is true exactly when the constructed client has a
\* broker configuration.
C13_SelfTest ==
    \A t \in Callers :
        frame[t].op = "test_exchange_connection" =>
            LET r == frame[t].out.value
                built == frame[t].created.status = "ok"
            IN  /\ frame[t].out.status = "ok"
                /\ (r.server_time # None) <=> (built /\ frame[t].time_ok)
                /\ (r.account_info # None) <=> (built /\ frame[t].balance_ok)
                /\ r.broker_injected <=>
                      (built /\ "broker" \in DOMAIN frame[t].created.client[1].options)

\* The clients that are the handle of an account: the cached one and the
\* ones _get_exchange has returned to a tool still running.
HandlesOf(a) ==
    {n \in DOMAIN clients :
        /\ clients[n].account = a
        /\ \/ a \in DOMAIN cache /\ cache[a] = n
           \/ \E t \in Callers : tpc[t] = "body" /\ frame[t].ex = n}

\* C14: at any time an account has at most one handle, and the tools
\* running for the account all run on it, however the callers interleave.
C14_OneHandle ==
    \A a \in Ids :
        /\ Cardinality(HandlesOf(a)) <= 1
        /\ \A t, u \in Callers :
              (tpc[t] = "body" /\ tpc[u] = "body" /\ frame[t].id = a /\ frame[u].id = a)
              => frame[t].ex = frame[u].ex

\* The requests a caller's tool has sent so far.
Requests(t) == SelectSeq(wire, LAMBDA w : w.by = t)

\* The account is in unified (portfolio margin) mode in the server's table.
Unified(a) ==
    /\ a \in DOMAIN config[Server].accounts
    /\ "portfolio_margin" \in DOMAIN config[Server].accounts[a]
    /\ config[Server].accounts[a]["portfolio_margin"]

\* A call of the tool by the caller has returned a value.
Returns(t, op) == tpc[t] = "done" /\ frame[t].op = op /\ frame[t].error = None

HasName(record) == "asset" \in DOMAIN record /\ record["asset"] # ""

\* C15: get_balance of a unified account for future, option or margin
\* returns, for a list from the unified-balance endpoint, one entry for each
\* asset named in the list and no other, with free, used (never negative)
\* and total computed from the record of the asset.
C15_UnifiedBalance ==
    \A t \in Callers :
        (/\ Returns(t, "get_balance")
         /\ Unified(frame[t].id)
         /\ frame[t].args.account_type \in {"future", "option", "margin"})
        => LET sent == Requests(t)
               reply == sent[1].reply
               result == frame[t].value
           IN  /\ Len(sent) = 1
               /\ sent[1].endpoint = "papi_get_balance"
               /\ reply.kind = "list" =>
                    /\ DOMAIN result =
                          {reply.data[n]["asset"] :
                              n \in {k \in DOMAIN reply.data : HasName(reply.data[k])}}
                    /\ \A n \in DOMAIN reply.data :
                          HasName(reply.data[n]) =>
                             LET record == reply.data[n]
                                 entry == result[record["asset"]]
                                 free == FloatOr0(record, "crossMarginFree")
                                           + FloatOr0(record, "umWalletBalance")
                                           + FloatOr0(record, "cmWalletBalance")
                                 total == FloatOr0(record, "totalWalletBalance")
                             IN  /\ entry.free = free
                                 /\ entry.used = (IF total - free > 0 THEN total - free ELSE 0)
                                 /\ entry.total = total
                                 /\ entry.used >= 0

C15_Witness ==
    \E t \in Callers :
        /\ Returns(t, "get_balance")
        /\ Unified(frame[t].id)
        /\ frame[t].args.account_type = "margin"
        /\ Len(Requests(t)) = 1
        /\ Requests(t)[1].reply.kind = "list"
        /\ Len(Requests(t)[1].reply.data) = 2
        /\ DOMAIN frame[t].value = {"USDT"}
        /\ frame[t].value["USDT"].free = 15
        /\ frame[t].value["USDT"].used = 5
        /\ frame[t].value["USDT"].total = 20

Cached == {cache[a] : a \in DOMAIN cache}

\* The caller is inside a spot balance query of a unified account.
SpotQuery(t) ==
    /\ tpc[t] # "idle"
    /\ frame[t].op = "get_balance"
    /\ frame[t].args.account_type = "spot"
    /\ Unified(frame[t].id)

\* C16: in a spot balance query of a unified account no step changes a
\* client that exists or an entry of the cache, the cache only ever holds
\* clients built by _get_exchange, and the one request sent is the
\* balance-fetch of a client built in this call after the handle was
\* obtained, configured without the unified flag and not in the cache.
C16_SpotQueryFrame ==
    [][\A t \in Callers :
          SpotQuery(t) =>
             /\ \A n \in DOMAIN clients : clients'[n] = clients[n]
             /\ \A a \in DOMAIN cache : a \in DOMAIN cache' /\ cache'[a] = cache[a]
             /\ \A a \in DOMAIN cache' : clients'[cache'[a]].kind = "handle"
             /\ (tpc[t] = "spot_build" /\ tpc'[t] = "spot_fetch")
                   => /\ Len(clients') = Len(clients) + 1
                      /\ frame'[t].tmp = Len(clients')
             /\ Len(wire') > Len(wire)
                   => LET w == wire'[Len(wire')]
                      IN  /\ wire = <<>>
                          /\ w.endpoint = "fetch_balance"
                          /\ w.on = frame[t].tmp
                          /\ w.on > frame[t].ex
                          /\ w.on \notin Cached
                          /\ "portfolioMargin" \notin DOMAIN clients[w.on].obj.options]_vars

C16_Witness ==
    \E t \in Callers :
        /\ SpotQuery(t)
        /\ Returns(t, "get_balance")
        /\ Len(Requests(t)) = 1
        /\ Requests(t)[1].on = frame[t].tmp
        /\ frame[t].id \in DOMAIN cache
        /\ cache[frame[t].id] = frame[t].ex
        /\ frame[t].ex # frame[t].tmp
        /\ clients[frame[t].ex].obj.options.portfolioMargin
        /\ clients[frame[t].ex].obj.options.defaultType = "spot"

\* The characters that separate the parts of a symbol.
Separators == {"/", ":"}

\* C17: a derivatives order of a unified account that reaches the exchange
\* is one call of the unified order endpoint and no other request, with the
\* symbol free of separators, side and type in upper case, the amount as
\* quantity, positionSide LONG for a buy and SHORT for a sell, and a price
\* exactly when the order is not a market order.
C17_UnifiedOrder ==
    \A t \in Callers :
        (/\ tpc[t] = "done"
         /\ frame[t].op \in OrderTools
         /\ Unified(frame[t].id)
         /\ frame[t].ex # 0)
        => LET sent == Requests(t)
               a == frame[t].args
               p == sent[1].params
           IN  /\ Len(sent) = 1
               /\ sent[1].endpoint = "papiPostUmOrder"
               /\ \A n \in DOMAIN p.symbol : p.symbol[n] \notin Separators
               /\ p.side = upper(a.side)
               /\ p.type = upper(a.order_type)
               /\ p.quantity = a.amount
               /\ upper(a.side) = "BUY" => p.positionSide = "LONG"
               /\ upper(a.side) = "SELL" => p.positionSide = "SHORT"
               /\ ("price" \in DOMAIN p) <=> (upper(a.order_type) # "MARKET")


\* The sapi_post_asset_transfer requests of a caller, in the order issued.
TransferCalls(t) ==
    SelectSeq(Requests(t), LAMBDA w : w.endpoint = "sapi_post_asset_transfer")

TypesOf(calls) == [n \in DOMAIN calls |-> calls[n].params.type]

IsPrefix(s, whole) == Len(s) <= Len(whole) /\ \A n \in DOMAIN s : s[n] = whole[n]

\* transfer_funds of a unified account from one wallet to another is running
\* or has ended.
UnifiedTransfer(t, from_account, to_account) ==
    /\ tpc[t] # "idle"
    /\ frame[t].op = "transfer_funds"
    /\ Unified(frame[t].id)
    /\ frame[t].args.from_account = from_account
    /\ frame[t].args.to_account = to_account

\* C18: on a unified account a transfer from future to spot issues the calls
\* future -> margin and margin -> spot in this order, the second only after
\* the first has returned successfully, and returns after exactly these two;
\* a transfer from spot to future issues the single call spot -> margin. Every
\* call carries the asset and the amount of the transfer.
C18_TransferSteps ==
    \A t \in Callers :
        /\ UnifiedTransfer(t, "future", "spot") =>
              /\ IsPrefix(TypesOf(TransferCalls(t)), <<"UMFUTURE_MARGIN", "MARGIN_MAIN">>)
              /\ Len(TransferCalls(t)) = 2 => TransferCalls(t)[1].reply.ok
              /\ Returns(t, "transfer_funds") => Len(TransferCalls(t)) = 2
        /\ UnifiedTransfer(t, "spot", "future") =>
              /\ IsPrefix(TypesOf(TransferCalls(t)), <<"MAIN_MARGIN">>)
              /\ Returns(t, "transfer_funds") => Len(TransferCalls(t)) = 1
        /\ tpc[t] # "idle" /\ frame[t].op = "transfer_funds" =>
              \A n \in DOMAIN TransferCalls(t) :
                  /\ TransferCalls(t)[n].params.asset = frame[t].args.currency
                  /\ TransferCalls(t)[n].params.amount = frame[t].args.amount

\* A transfer from future to spot of a unified account has returned after its
\* two calls.
C18_Witness ==
    /\ UnifiedTransfer("t1", "future", "spot")
    /\ Returns("t1", "transfer_funds")
    /\ TypesOf(TransferCalls("t1")) = <<"UMFUTURE_MARGIN", "MARGIN_MAIN">>
    /\ frame["t1"].value.tranId = TransferCalls("t1")[2].reply.data.tranId

\* The second step of a transfer from future to spot failed after the first
\* had succeeded.
SecondStepFailed(t) ==
    /\ UnifiedTransfer(t, "future", "spot")
    /\ tpc[t] = "done"
    /\ Len(TransferCalls(t)) = 2
    /\ TransferCalls(t)[1].reply.ok
    /\ ~TransferCalls(t)[2].reply.ok

\* The words by which an error tells that the first step was completed.
PartialStateWords == {"step1", "UMFUTURE_MARGIN", "margin"}

\* C19: when the second step of a transfer from future to spot fails after
\* the first has succeeded, the error the caller gets reports that the first
\* step was completed and that the funds are in the margin wallet.
C19_PartialStateReported ==
    \A t \in Callers :
        SecondStepFailed(t) =>
            /\ frame[t].error # None
            /\ \E n \in DOMAIN frame[t].error[1].msg :
                  frame[t].error[1].msg[n] \in PartialStateWords

\* The pairs of wallets a unified account can transfer between.
SupportedPairs ==
    {<<"spot", "future">>, <<"future", "spot">>} \cup DOMAIN transfer_type_map

\* C20: a transfer of a unified account between a pair of wallets that is not
\* supported ends with the unsupported-transfer error naming the source and
\* the destination, and no request has been sent to the exchange.
C20_UnsupportedFailsFast ==
    \A t \in Callers, from_account \in Wallets, to_account \in Wallets :
        /\ UnifiedTransfer(t, from_account, to_account)
        /\ <<from_account, to_account>> \notin SupportedPairs
        /\ frame[t].tmp # 0
        /\ tpc[t] = "done"
        => /\ Requests(t) = <<>>
           /\ frame[t].error # None
           /\ LET msg == frame[t].error[1].msg
              IN  /\ \E n \in DOMAIN msg : msg[n] = "unsupported transfer"
                  /\ \E n \in DOMAIN msg : msg[n] = from_account
                  /\ \E n \in DOMAIN msg : msg[n] = to_account

\* close_position of a caller has fetched the positions.
Closing(t) ==
    /\ tpc[t] \in {"close_loop", "done"}
    /\ frame[t].op = "close_position"
    /\ Requests(t) # <<>>
    /\ Requests(t)[1].reply.ok

\* The positions fetched that the call has to close, in the order fetched.
Matching(t) ==
    SelectSeq(Requests(t)[1].reply.data,
              LAMBDA p : /\ p.contracts # 0
                         /\ \/ frame[t].args.side = None
                            \/ frame[t].args.side = Some(p.side))

\* The market order closing a position.
Opposite(p, symbol) ==
    [symbol |-> symbol, side |-> IF p.side = "long" THEN "sell" ELSE "buy",
     amount |-> p.contracts]

CloseOrders(t) ==
    SelectSeq(Requests(t), LAMBDA w : w.endpoint = "create_market_order")

\* C21: close_position submits one market order for every fetched position of
\* nonzero size whose side passes the filter, opposite to the position and of
\* its full size, and no other order; it returns the records of all of them,
\* and an empty result without error when no position matches.
C21_ClosePosition ==
    \A t \in Callers :
        Closing(t) =>
            LET orders == CloseOrders(t)
                expected == [n \in DOMAIN Matching(t) |->
                                Opposite(Matching(t)[n], frame[t].args.symbol)]
            IN  /\ Len(Requests(t)) = 1 + Len(orders)
                /\ IsPrefix([n \in DOMAIN orders |-> orders[n].params], expected)
                /\ Returns(t, "close_position") =>
                      /\ Len(orders) = Len(expected)
                      /\ frame[t].value =
                            [closed_positions |->
                                [n \in DOMAIN orders |-> orders[n].reply.data]]
                /\ (tpc[t] = "done" /\ expected = <<>>) =>
                      /\ frame[t].error = None
                      /\ frame[t].value = [closed_positions |-> <<>>]

\* Two positions were fetched, the filter kept the long one, its closing
\* order was returned.
C21_Witness ==
    /\ Closing("t1")
    /\ Returns("t1", "close_position")
    /\ Len(Requests("t1")[1].reply.data) = 2
    /\ frame["t1"].args.side = Some("long")
    /\ Len(CloseOrders("t1")) = 1
    /\ CloseOrders("t1")[1].params.side = "sell"
    /\ Len(frame["t1"].value.closed_positions) = 1

\* The order of a later position failed after an earlier one was closed.
LaterOrderFailed(t) ==
    /\ Closing(t)
    /\ tpc[t] = "done"
    /\ Len(CloseOrders(t)) = 2
    /\ CloseOrders(t)[1].reply.ok
    /\ ~CloseOrders(t)[2].reply.ok

\* C22: when the order of a later position fails, the caller receives the
\* records of the positions closed before the failure.
C22_ClosedSubsetReturned ==
    \A t \in Callers :
        LaterOrderFailed(t) =>
            /\ "closed_positions" \in DOMAIN frame[t].value
            /\ frame[t].value["closed_positions"] = <<CloseOrders(t)[1].reply.data>>

\* The requests of a caller that raised.
Failed(t) == SelectSeq(Requests(t), LAMBDA w : ~w.reply.ok)

\* C23: an error raised by a request of a tool reaches the caller with its
\* class and its message unchanged, and the tool sends nothing after it.
C23_ErrorUnmodified ==
    \A t \in Callers :
        Failed(t) # <<>> =>
            /\ ~Requests(t)[Len(Requests(t))].reply.ok
            /\ Len(Failed(t)) = 1
            /\ tpc[t] = "done"
            /\ frame[t].error = Some(Failed(t)[1].reply.error)

\* The second order of close_position was refused by the exchange.
C23_Witness ==
    /\ Len(CloseOrders("t1")) = 2
    /\ Failed("t1") # <<>>
    /\ frame["t1"].error = Some(Exc("ExchangeError", <<"binance">>))

\* The account a call names is in the table of the server.
Registered(a) == a \in DOMAIN config[Server].accounts

Mentions(e, word) == \E n \in DOMAIN e.msg : e.msg[n] = word

\* C24: a tool called for an account id that is not in the registry sends no
\* request and ends with the account-not-found error, whatever registry and
\* tool calls came before.
C24_UnknownAccountRejected ==
    \A t \in Callers :
        (tpc[t] # "idle" /\ ~Registered(frame[t].id)) =>
            /\ Requests(t) = <<>>
            /\ tpc[t] # "body"
            /\ tpc[t] = "done" =>
                  /\ frame[t].error # None
                  /\ Mentions(frame[t].error[1], "no such account")

\* The handles built by _get_exchange for an account, in the order built.
Handles(a) ==
    SelectSeq([n \in DOMAIN clients |-> [n |-> n, c |-> clients[n]]],
              LAMBDA x : x.c.kind = "handle" /\ x.c.account = a)

Current(a) == get_account(config[Server], cipher[Server], a).value

\* C28: a tool that runs on a cached handle runs with the credentials and
\* the unified flag the registry holds for the account at that time.
C28_HandleMatchesRegistry ==
    \A t \in Callers :
        (tpc[t] = "body" /\ Registered(frame[t].id)
            /\ get_account(config[Server], cipher[Server], frame[t].id).status = "ok") =>
            LET obj == clients[frame[t].ex].obj
                account == Current(frame[t].id)
            IN  /\ obj.apiKey = account["api_key"]
                /\ obj.secret = account["secret"]
                /\ obj.options.portfolioMargin = GetOr(account, "portfolio_margin", FALSE)

\* The segment a standard get_balance selects for its own call.
Wanted(t) ==
    IF frame[t].args.account_type \in {"future", "option"}
    THEN frame[t].args.account_type ELSE "spot"

\* The balance requests of standard accounts sent on handles.
StandardFetches ==
    SelectSeq(wire, LAMBDA w : w.endpoint = "fetch_balance" /\ "segment" \in DOMAIN w
                               /\ clients[w.on].kind = "handle")

\* C26: a standard get_balance reaches the exchange under whatever segment
\* the shared handle holds when the request is sent: the one it set itself
\* or one another caller set on the same handle in between, nothing ties the
\* setting to the request. (The state in which it is the other caller's
\* segment is C26_Witness.)
C26_SegmentNotSerialized ==
    [][\A t \in Callers :
          (tpc[t] = "fetch_balance" /\ Len(wire') > Len(wire) /\ wire'[Len(wire')].by = t) =>
              LET w == wire'[Len(wire')]
              IN  /\ w.on = frame[t].ex
                  /\ clients[w.on].kind = "handle"
                  /\ clients[w.on].account = frame[t].id
                  /\ w.segment = defaultType(frame[t].ex)]_vars

\* A spot balance query has been sent while the handle was on the segment
\* another caller's future query had set, that caller still being in its call.
C26_Witness ==
    \E t, u \in Callers :
        /\ t # u
        /\ tpc[t] = "done" /\ frame[t].op = "get_balance"
        /\ frame[t].args.account_type = "spot"
        /\ tpc[u] = "fetch_balance" /\ frame[u].args.account_type = "future"
        /\ frame[u].ex = frame[t].ex
        /\ \E n \in DOMAIN wire :
              /\ wire[n].by = t
              /\ wire[n].endpoint = "fetch_balance"
              /\ wire[n].segment = "future"
              /\ wire[n].segment # Wanted(t)

\* C27: _get_exchange for a registered account whose client can be built
\* never ends in an error, however clear_exchange_cache and other lookups
\* interleave with it.
C27_LookupReturns ==
    \A t \in Callers :
        (tpc[t] = "done" /\ frame[t].op = "cancel_order" /\ Registered(frame[t].id)) =>
            IF frame[t].error = None THEN TRUE
            ELSE \/ frame[t].error[1].type \in CcxtErrors
                 \/ Mentions(frame[t].error[1], "exchange construction failed")

\* The requests of the tools that select no segment themselves.
Unselected ==
    SelectSeq(wire, LAMBDA w : "segment" \in DOMAIN w
                               /\ w.endpoint \in {"fetch_positions", "create_market_order"})

\* C30: two requests of a tool that selects no segment, for the same account
\* and with the same arguments, reach the exchange under the same segment,
\* whatever was executed on the handle of the account before.
C30_SegmentDetermined ==
    \A m, n \in DOMAIN Unselected :
        LET v == Unselected[m]
            w == Unselected[n]
        IN  (/\ clients[v.on].account = clients[w.on].account
             /\ v.endpoint = w.endpoint
             /\ v.params = w.params) => v.segment = w.segment

\* add_account, update_account or remove_account of an object has ended
\* with the error of _save_config.
MutationFailed(i) ==
    /\ pc[i] = "returned"
    /\ call[i].op \in {"add", "update", "remove"}
    /\ call[i].status = "SaveFailed"

\* C29: after a mutating operation has failed while persisting, the table in
\* memory is the table on disk, which the failed write has left whole: the
\* operation has undone its change.
C29_FailedMutationRollsBack ==
    \A i \in Instances :
        MutationFailed(i) =>
            /\ configFile.st = "full"
            /\ config[i] = configFile.doc
=============================================================================
